---------------------------- MODULE Spec2Model ----------------------------
(***************************************************************************)
(* A model of the MSP support assistant's conversational core:             *)
(*   - ShortTermMemory   (src/src/agent/memory.py)                         *)
(*   - ModelRouter       (src/src/agent/router.py)                         *)
(*   - TicketTools / KnowledgeBaseTools and the tool dispatcher            *)
(*                       (src/src/agent/tools.py, agent.py)                *)
(*   - MSPSupportAgent.process_message (src/src/agent/agent.py)            *)
(*   - MSPSupportAgent.process_message_stream, start_session, end_session  *)
(*   - the ticket API    (src/src/lambda/handler.py)                       *)
(*   - the tool-style entry point (src/src/lambda/agentcore_handler.py)    *)
(* Python strings are TLA+ strings; characters are strings of length 1.    *)
(***************************************************************************)
EXTENDS Integers, Sequences, FiniteSets, TLC

VARIABLES
    \* ---- ShortTermMemory
    max_messages,       \* ShortTermMemory.max_messages
    messages,           \* ShortTermMemory.messages: sequence of [role, content]
    session_metadata,   \* ShortTermMemory.session_metadata: a dict, as a function
    appended,           \* history of the log on its own: every message given to
                        \* add_message since the last clear
    mret,               \* the ShortTermMemory call just finished
    \* ---- ModelRouter
    claude_model_id,    \* ModelRouter.claude_model_id
    titan_model_id,     \* ModelRouter.titan_model_id
    use_llm_routing,    \* ModelRouter.use_llm_routing
    routing_stats,      \* ModelRouter.routing_stats
    ncalls,             \* history: get_model calls made since the last reset_stats
    rcall,              \* the router call in progress or just finished
    \* ---- tool dispatcher
    tcall,              \* the _execute_tool invocation just finished
    \* ---- MSPSupportAgent.process_message
    pc,                 \* where the turn is
    user_message,       \* process_message's argument
    pm_force_model,     \* process_message's argument force_model
    context,            \* agent.py:284, the memory log after the user message
    model_id,           \* agent.py:287, the routed model
    tools,              \* agent.py:304, TRUE when TOOL_SCHEMAS go with the invocation
    inflight,           \* agent.py:294, the local list `messages`
    response,           \* the model's last reply
    block,              \* index into response["content"] of the block at hand
    tool_results,       \* agent.py:314, the results of this round of tool calls
    caught,             \* agent.py:355, the exception the handler caught, or None
    reply,              \* what process_message returned, or the exception it raised
    turns,              \* history: process_message calls made
    \* ---- the ticket API (lambda/handler.py)
    store,              \* the tickets table: a function from TicketId to the item
    hret,               \* the lambda_handler invocation just finished
    \* ---- the session of the agent (agent.py:79-113, memory.py:344-380)
    session_id,         \* MSPSupportAgent.session_id
    memory_session_id,  \* MemoryManager.session_id
    session_mark,       \* history: Len(appended) at the most recent start_session
    \* ---- a streaming turn (agent.py:361-420)
    chunks,             \* history: what the generator yielded in this turn
    full_response       \* the text accumulated in this turn

memVars    == <<max_messages, messages, session_metadata, appended, mret>>
routerVars == <<claude_model_id, titan_model_id, use_llm_routing, routing_stats,
                ncalls, rcall>>
toolVars   == <<tcall>>
agentVars  == <<pc, user_message, pm_force_model, context, model_id, tools, inflight,
                response, block, tool_results, caught, reply, turns>>
lambdaVars == <<store, hret>>
sessionVars == <<session_id, memory_session_id, session_mark>>
streamVars == <<chunks, full_response>>
vars       == <<memVars, routerVars, toolVars, agentVars, lambdaVars, sessionVars, streamVars>>

-----------------------------------------------------------------------------
(* Bounds of the model *)

\* largest capacity a memory log is constructed with
MaxCapacity == 3
\* most add_message calls between two clears
MaxAppends == 4
\* most get_model calls between two resets
MaxCalls == 2
\* largest last_n given to get_context
MaxLastN == 3

-----------------------------------------------------------------------------
(* Python str operations *)

UpperAlpha == "ABCDEFGHIJKLMNOPQRSTUVWXYZ"
LowerAlpha == "abcdefghijklmnopqrstuvwxyz"
\* the characters str.strip() and str.split() treat as whitespace
Whitespace == {" ", "\t", "\n", "\r", "\f"}

CharAt(s, i) == SubSeq(s, i, i)

\* the element of a set of one element.  The({F(t) : t \in {e}}) is F(e) with
\* e evaluated once, however often F uses it.
The(S) == CHOOSE x \in S : TRUE

\* the lower-case letter of each upper-case letter, and the reverse
ToLower == [c \in {CharAt(UpperAlpha, i) : i \in 1..Len(UpperAlpha)} |->
               CharAt(LowerAlpha, CHOOSE i \in 1..Len(UpperAlpha) : CharAt(UpperAlpha, i) = c)]
ToUpper == [c \in {CharAt(LowerAlpha, i) : i \in 1..Len(LowerAlpha)} |->
               CharAt(UpperAlpha, CHOOSE i \in 1..Len(LowerAlpha) : CharAt(LowerAlpha, i) = c)]

LowerChar(c) == IF c \in DOMAIN ToLower THEN ToLower[c] ELSE c

UpperChar(c) == IF c \in DOMAIN ToUpper THEN ToUpper[c] ELSE c

RECURSIVE StrLower(_)
\* str.lower(), character by character
StrLower(s) ==
    The({ IF Len(t) <= 1 THEN LowerChar(t)
          ELSE StrLower(SubSeq(t, 1, Len(t) \div 2))
               \o StrLower(SubSeq(t, Len(t) \div 2 + 1, Len(t))) : t \in {s} })

RECURSIVE StrUpper(_)
\* str.upper(), character by character
StrUpper(s) ==
    The({ IF Len(t) <= 1 THEN UpperChar(t)
          ELSE StrUpper(SubSeq(t, 1, Len(t) \div 2))
               \o StrUpper(SubSeq(t, Len(t) \div 2 + 1, Len(t))) : t \in {s} })

\* str.strip(): drop leading and trailing whitespace
StrStrip(s) ==
    The({ The({ IF keep = {} THEN ""
                ELSE SubSeq(t, CHOOSE i \in keep : \A j \in keep : i <= j,
                               CHOOSE i \in keep : \A j \in keep : j <= i) :
                keep \in {{i \in 1..Len(t) : CharAt(t, i) \notin Whitespace}} }) :
          t \in {s} })

\* len(str.split()): the number of maximal runs of non-whitespace characters
WordCount(s) ==
    The({ Cardinality({i \in 1..Len(t) :
                          /\ CharAt(t, i) \notin Whitespace
                          /\ (i = 1 \/ CharAt(t, i - 1) \in Whitespace)}) : t \in {s} })

\* `sub in s`
StrContains(s, sub) ==
    \E t \in {s} :
        \E i \in 1..(Len(t) + 1) :
            /\ i + Len(sub) - 1 <= Len(t)
            /\ SubSeq(t, i, i + Len(sub) - 1) = sub

-----------------------------------------------------------------------------
(* Regular expressions of router.py, as far as its patterns use them:      *)
(* [^] lit (.* lit)* [c?] [$], matched by re.search with re.IGNORECASE.    *)
(* A pattern is [start, lits, opt, end]: anchored at the start, literal    *)
(* segments separated by ".*", an optional last character, anchored at     *)
(* the end.                                                                *)

Pat(start, lits, opt, end) == [start |-> start, lits |-> lits, opt |-> opt, end |-> end]

COMPLEX_PATTERNS == <<
    Pat(FALSE, <<"explain", "in detail">>, "", FALSE),
    Pat(FALSE, <<"analyze">>, "", FALSE),
    Pat(FALSE, <<"compare">>, "", FALSE),
    Pat(FALSE, <<"summarize", "all">>, "", FALSE),
    Pat(FALSE, <<"what", "difference">>, "s", FALSE),
    Pat(FALSE, <<"why", "happened">>, "", FALSE),
    Pat(FALSE, <<"how", "work">>, "", FALSE),
    Pat(FALSE, <<"troubleshoot">>, "", FALSE),
    Pat(FALSE, <<"debug">>, "", FALSE),
    Pat(FALSE, <<"investigate">>, "", FALSE),
    Pat(FALSE, <<"review", "history">>, "", FALSE),
    Pat(FALSE, <<"multiple", "issues">>, "", FALSE),
    Pat(FALSE, <<"complex">>, "", FALSE),
    Pat(FALSE, <<"detailed", "report">>, "", FALSE) >>

SIMPLE_PATTERNS == <<
    Pat(TRUE, <<"what", "status">>, "", FALSE),
    Pat(TRUE, <<"show", "ticket">>, "", FALSE),
    Pat(TRUE, <<"list", "ticket">>, "s", FALSE),
    Pat(TRUE, <<"create", "ticket">>, "", FALSE),
    Pat(TRUE, <<"update", "status">>, "", FALSE),
    Pat(TRUE, <<"close", "ticket">>, "", FALSE),
    Pat(TRUE, <<"get", "ticket">>, "", FALSE),
    Pat(TRUE, <<"find", "ticket">>, "", FALSE),
    Pat(TRUE, <<"how many">>, "", FALSE),
    Pat(TRUE, <<"is", "open">>, "", FALSE),
    Pat(TRUE, <<"yes">>, "", TRUE),
    Pat(TRUE, <<"no">>, "", TRUE),
    Pat(TRUE, <<"ok">>, "", TRUE),
    Pat(TRUE, <<"thank">>, "s", FALSE) >>

\* the literal lit stands in t at position pos
LitAt(t, lit, pos) ==
    /\ pos + Len(lit) - 1 <= Len(t)
    /\ SubSeq(t, pos, pos + Len(lit) - 1) = lit

\* "$": the end of the string, or just before a newline that ends it
AtEnd(t, pos) ==
    \/ pos = Len(t) + 1
    \/ pos = Len(t) /\ CharAt(t, pos) = "\n"

\* ".*" can cover t[from..to]: "." matches any character but a newline
DotStar(t, from, to) == \A k \in from..to : CharAt(t, k) # "\n"

\* what follows the last literal: the optional character and the end anchor
TailAt(p, t, pos) ==
    \/ ~p.end
    \/ AtEnd(t, pos)
    \/ p.opt # "" /\ LitAt(t, p.opt, pos) /\ AtEnd(t, pos + 1)

RECURSIVE MatchRest(_, _, _, _)
\* the pattern from its k-th literal on matches t from position pos on
MatchRest(p, t, k, pos) ==
    \E from \in {pos} :
        IF k > Len(p.lits) THEN TailAt(p, t, from)
        ELSE \E j \in from..(Len(t) + 1) :
                /\ LitAt(t, p.lits[k], j)
                /\ DotStar(t, from, j - 1)
                /\ MatchRest(p, t, k + 1, j + Len(p.lits[k]))

\* pattern.search(text) is not None, for a pattern compiled with re.IGNORECASE
ReSearch(p, text) ==
    \E t \in {StrLower(text)} :
        \E i \in (IF p.start THEN {1} ELSE 1..(Len(t) + 1)) :
            /\ LitAt(t, p.lits[1], i)
            /\ MatchRest(p, t, 2, i + Len(p.lits[1]))


-----------------------------------------------------------------------------
(* ModelRouter: the heuristic classifier *)

SIMPLE  == "simple"
COMPLEX == "complex"

\* word_count <= 5: very short queries are simple
SHORT_QUERY_WORDS == 5
\* word_count > 50: long queries are complex
LONG_QUERY_WORDS == 50
\* context_length > 10: lots of context is complex
LONG_CONTEXT == 10

COMPLEX_KEYWORDS == <<"why", "how", "explain", "analyze", "troubleshoot">>

RECURSIVE FirstMatch(_, _, _)
\* `for pattern in patterns: if pattern.search(text): return ...`:
\* the index of the first pattern from the i-th on that matches, or 0
FirstMatch(patterns, i, text) ==
    IF i > Len(patterns) THEN 0
    ELSE IF ReSearch(patterns[i], text) THEN i
    ELSE FirstMatch(patterns, i + 1, text)

\* classify_query without the context_length test of router.py:136
classify_query_ignoring_context(query, context_length) ==
    The({ IF FirstMatch(SIMPLE_PATTERNS, 1, query_lower) # 0 THEN SIMPLE
          ELSE IF FirstMatch(COMPLEX_PATTERNS, 1, query_lower) # 0 THEN COMPLEX
          ELSE IF word_count <= SHORT_QUERY_WORDS THEN SIMPLE
          ELSE IF word_count > LONG_QUERY_WORDS THEN COMPLEX
          ELSE IF \E k \in 1..Len(COMPLEX_KEYWORDS) :
                      StrContains(query_lower, COMPLEX_KEYWORDS[k]) THEN COMPLEX
          ELSE SIMPLE :
          query_lower \in {StrStrip(StrLower(query))},
          word_count \in {WordCount(query)} })

\* classify_query with the two pattern loops in the other order
classify_query_complex_first(query, context_length) ==
    The({ IF FirstMatch(COMPLEX_PATTERNS, 1, query_lower) # 0 THEN COMPLEX
          ELSE IF FirstMatch(SIMPLE_PATTERNS, 1, query_lower) # 0 THEN SIMPLE
          ELSE IF word_count <= SHORT_QUERY_WORDS THEN SIMPLE
          ELSE IF word_count > LONG_QUERY_WORDS \/ context_length > LONG_CONTEXT THEN COMPLEX
          ELSE IF \E k \in 1..Len(COMPLEX_KEYWORDS) :
                      StrContains(query_lower, COMPLEX_KEYWORDS[k]) THEN COMPLEX
          ELSE SIMPLE :
          query_lower \in {StrStrip(StrLower(query))},
          word_count \in {WordCount(query)} })

\* ModelRouter.classify_query
classify_query(query, context_length) ==
    The({ IF FirstMatch(SIMPLE_PATTERNS, 1, query_lower) # 0 THEN SIMPLE
          ELSE IF FirstMatch(COMPLEX_PATTERNS, 1, query_lower) # 0 THEN COMPLEX
          ELSE IF word_count <= SHORT_QUERY_WORDS THEN SIMPLE
          ELSE IF word_count > LONG_QUERY_WORDS \/ context_length > LONG_CONTEXT THEN COMPLEX
          ELSE IF \E k \in 1..Len(COMPLEX_KEYWORDS) :
                      StrContains(query_lower, COMPLEX_KEYWORDS[k]) THEN COMPLEX
          ELSE SIMPLE :
          query_lower \in {StrStrip(StrLower(query))},
          word_count \in {WordCount(query)} })

-----------------------------------------------------------------------------
(* ModelRouter: the LLM classifier and get_model *)

\* What bedrock_runtime.invoke_model and the parsing of its reply can do in
\* classify_with_llm: a reply text, a botocore ClientError, or any other
\* exception (a connection error, an unreadable body, an empty result list).
LLMReply(text) == [kind |-> "reply", text |-> text]
LLMRaises(exc) == [kind |-> "raise", exc |-> exc]
NoLLMCall      == [kind |-> "none"]
LLMOutcomes ==
    {LLMReply("SIMPLE"), LLMReply("COMPLEX"), LLMReply(" Complex.\n"), LLMReply(""),
     LLMRaises("ClientError"), LLMRaises("EndpointConnectionError"),
     LLMRaises("JSONDecodeError")}

Returned(v) == [raised |-> FALSE, value |-> v]
Raised(exc) == [raised |-> TRUE, value |-> exc]
\* the classifier was not run
NotClassified == [raised |-> FALSE, value |-> "none"]

\* ModelRouter.classify_with_llm, given what the model call does
classify_with_llm(query, outcome) ==
    IF outcome.kind = "reply"
    THEN LET result == StrStrip(outcome.text)
         IN  IF StrContains(StrUpper(result), "COMPLEX")
             THEN Returned(COMPLEX) ELSE Returned(SIMPLE)
    ELSE IF outcome.exc = "ClientError"
    THEN Returned(classify_query(query, 0))
    ELSE Raised(outcome.exc)

\* force_model values: None, a str, or an object that is no str
None       == [tag |-> "none"]
Str(s)     == [tag |-> "str", s |-> s]
NonStr     == [tag |-> "object"]
IntVal(n)  == [tag |-> "int", n |-> n]
\* Python truthiness of a value
Truthy(v) ==
    IF v.tag = "none" THEN FALSE
    ELSE IF v.tag = "str" THEN v.s # ""
    ELSE IF v.tag = "int" THEN v.n # 0
    ELSE TRUE

\* {}
EmptyDict == [k \in {} |-> None]

Incr(stats, key) == [stats EXCEPT ![key] = @ + 1]

\* the classification step of get_model (router.py:224-228)
Classify(query, context_length, outcome) ==
    IF use_llm_routing THEN classify_with_llm(query, outcome)
    ELSE Returned(classify_query(query, context_length))

\* get_model with the forced-model test comparing force_model itself, not
\* force_model.lower()
get_model_case_sensitive(query, context_length, force_model, outcome) ==
    LET forced == IF ~Truthy(force_model) THEN "no"
                  ELSE IF force_model.tag # "str" THEN "AttributeError"
                  ELSE IF force_model.s = "claude" THEN "claude"
                  ELSE IF force_model.s = "titan" THEN "titan"
                  ELSE "no"
        c == Classify(query, context_length, outcome)
    IN  IF forced = "AttributeError"
        THEN [res |-> Raised("AttributeError"), stats |-> routing_stats, label |-> NotClassified]
        ELSE IF forced = "claude"
        THEN [res |-> Returned(claude_model_id), stats |-> Incr(routing_stats, "claude"),
              label |-> NotClassified]
        ELSE IF forced = "titan"
        THEN [res |-> Returned(titan_model_id), stats |-> Incr(routing_stats, "titan"),
              label |-> NotClassified]
        ELSE IF c.raised
        THEN [res |-> c, stats |-> routing_stats, label |-> c]
        ELSE IF c.value = COMPLEX
        THEN [res |-> Returned(claude_model_id), stats |-> Incr(routing_stats, "claude"),
              label |-> c]
        ELSE [res |-> Returned(titan_model_id), stats |-> Incr(routing_stats, "titan"),
              label |-> c]

\* ModelRouter.get_model: the model id returned (or the exception raised),
\* the routing_stats it leaves, and what the classifier gave (NotClassified
\* when it was not run)
get_model(query, context_length, force_model, outcome) ==
    LET forced == IF ~Truthy(force_model) THEN "no"
                  ELSE IF force_model.tag # "str" THEN "AttributeError"
                  ELSE IF StrLower(force_model.s) = "claude" THEN "claude"
                  ELSE IF StrLower(force_model.s) = "titan" THEN "titan"
                  ELSE "no"
        c == Classify(query, context_length, outcome)
    IN  IF forced = "AttributeError"
        THEN [res |-> Raised("AttributeError"), stats |-> routing_stats,
              label |-> NotClassified]
        ELSE IF forced = "claude"
        THEN [res |-> Returned(claude_model_id), stats |-> Incr(routing_stats, "claude"),
              label |-> NotClassified]
        ELSE IF forced = "titan"
        THEN [res |-> Returned(titan_model_id), stats |-> Incr(routing_stats, "titan"),
              label |-> NotClassified]
        ELSE IF c.raised
        THEN [res |-> c, stats |-> routing_stats, label |-> c]
        ELSE IF c.value = COMPLEX
        THEN [res |-> Returned(claude_model_id), stats |-> Incr(routing_stats, "claude"),
              label |-> c]
        ELSE [res |-> Returned(titan_model_id), stats |-> Incr(routing_stats, "titan"),
              label |-> c]

\* round(num / den * 100, 1) in tenths of a percent: the nearest tenth, a tie
\* going to the even one
PctTenths(num, den) ==
    LET q == (num * 1000) \div den
        r == (num * 1000) % den
    IN  IF 2 * r < den THEN q
        ELSE IF 2 * r > den THEN q + 1
        ELSE IF q % 2 = 0 THEN q ELSE q + 1

\* get_routing_stats without the test of router.py:243-244
get_routing_stats_unguarded(stats) ==
    LET total == stats.claude + stats.titan
    IN  IF total = 0 THEN Raised("ZeroDivisionError")
        ELSE Returned([claude |-> stats.claude, titan |-> stats.titan,
                       claude_pct |-> PctTenths(stats.claude, total),
                       titan_pct |-> PctTenths(stats.titan, total)])

\* ModelRouter.get_routing_stats; the percentages are in tenths of a percent
get_routing_stats(stats) ==
    LET total == stats.claude + stats.titan
    IN  IF total = 0
        THEN Returned([claude |-> 0, titan |-> 0, claude_pct |-> 0, titan_pct |-> 0])
        ELSE Returned([claude |-> stats.claude, titan |-> stats.titan,
                       claude_pct |-> PctTenths(stats.claude, total),
                       titan_pct |-> PctTenths(stats.titan, total)])

\* ModelRouter.reset_stats
reset_stats == [claude |-> 0, titan |-> 0]

-----------------------------------------------------------------------------
(* The router's callers: the inputs the model draws *)

\* largest context_length a caller passes
MaxContext == 12

RECURSIVE Rep(_, _)
\* s * n
Rep(s, n) ==
    IF n = 0 THEN "" ELSE IF n = 1 THEN s
    ELSE Rep(s, n \div 2) \o Rep(s, n - n \div 2)

Queries ==
    { "What is the status of ticket 123?",
      "Can you analyze the root cause of the recurring VPN issues and provide a detailed troubleshooting plan?",
      "ok",
      "  OK \n",
      "Explain in detail how the authentication works",
      "List open tickets",
      "Simple query",
      "hello there",
      "",
      "no way",
      "TROUBLESHOOT",
      "what is the status and why has it happened again",
      "Thanksgiving plans need a detailed report to compare",
      "my laptop screen is flickering since monday",
      "somehow the printer stopped responding to jobs",
      "tell me why the vpn is down today",
      "please show me the open network tickets",
      "what is the\nstatus of this broken router",
      Rep("x ", LONG_QUERY_WORDS),
      Rep("x ", LONG_QUERY_WORDS + 1) }

Contexts == {0, LONG_CONTEXT, LONG_CONTEXT + 1, MaxContext}

\* force_model values of the declared type Optional[str]
ForceModels ==
    {None, Str(""), Str("claude"), Str("CLAUDE"), Str("Titan"), Str("titan"), Str("gpt-4")}

ModelIdPairs ==
    { <<"anthropic.claude-3-sonnet-20240229-v1:0", "amazon.titan-text-express-v1">>,
      <<"claude-test", "titan-test">> }

Idle == [phase |-> "idle", op |-> "none"]
\* no reply of the model at hand, no return value yet
NoResponse == [stop_reason |-> "none"]
NoReply == [kind |-> "none"]

-----------------------------------------------------------------------------
(* ShortTermMemory *)

\* Message(role=role, content=content, metadata=metadata or {}): add_message
\* is called without metadata; the timestamp, a reading of the clock, is left out
Message(role, content) == [role |-> role, content |-> content, metadata |-> EmptyDict]

\* xs[-n:] of a Python list
LastN(xs, n) ==
    IF n = 0 \/ n >= Len(xs) THEN xs
    ELSE SubSeq(xs, Len(xs) - n + 1, Len(xs))

\* add_message without the trim of memory.py:76-77
add_message_untrimmed(msgs, cap, role, content) == Append(msgs, Message(role, content))

\* ShortTermMemory.add_message: the list it leaves
add_message(msgs, cap, role, content) ==
    LET grown == Append(msgs, Message(role, content))
    IN  IF Len(grown) > cap THEN LastN(grown, cap) ELSE grown

\* ShortTermMemory.get_context(last_n): last_n is None or IntVal(n)
get_context(msgs, last_n) ==
    LET selected == IF Truthy(last_n) THEN LastN(msgs, last_n.n) ELSE msgs
    IN  [i \in 1..Len(selected) |->
            [role |-> selected[i].role, content |-> selected[i].content]]

\* clear() that leaves the session metadata
clear_messages_only(msgs, metadata) == [messages |-> << >>, session_metadata |-> metadata]

\* ShortTermMemory.clear: the list and the metadata map it leaves
clear(msgs, metadata) == [messages |-> << >>, session_metadata |-> EmptyDict]

MemInit(cap) ==
    /\ max_messages = cap
    /\ messages = << >>
    /\ session_metadata = EmptyDict
    /\ appended = << >>
    /\ mret = Idle

RouterInit(ids, llm) ==
    /\ claude_model_id = ids[1]
    /\ titan_model_id = ids[2]
    /\ use_llm_routing = llm
    /\ routing_stats = [claude |-> 0, titan |-> 0]
    /\ ncalls = 0
    /\ rcall = Idle

\* no tool was dispatched yet
ToolsInit == tcall = Idle

\* the tickets table is empty and no request was handled
LambdaInit ==
    /\ store = EmptyDict
    /\ hret = Idle

\* no session was started and nothing was streamed
SessionInit ==
    /\ session_id = None
    /\ memory_session_id = None
    /\ session_mark = 0
    /\ chunks = << >>
    /\ full_response = ""

\* the agent is constructed and no turn was started
AgentInit ==
    /\ pc = "idle"
    /\ user_message = ""
    /\ pm_force_model = None
    /\ context = << >>
    /\ model_id = ""
    /\ tools = FALSE
    /\ inflight = << >>
    /\ response = NoResponse
    /\ block = 0
    /\ tool_results = << >>
    /\ caught = None
    /\ reply = NoReply
    /\ turns = 0

\* dict[key] = value
DictSet(d, key, value) ==
    [k \in (DOMAIN d) \cup {key} |-> IF k = key THEN value ELSE d[k]]

-----------------------------------------------------------------------------
(* The memory log on its own: ShortTermMemory(max_messages) and calls of   *)
(* add_message, clear and set_metadata.                                    *)

Roles == {"user", "assistant"}
Contents == {"Hello", "Hi there!"}
MetadataKeys == {"user_id", "session_id"}
MetadataValues == {"u-1", "session-123"}

\* add_message(role, content)
AddMessage(role, content) ==
    /\ Len(appended) < MaxAppends
    /\ messages' = add_message(messages, max_messages, role, content)
    /\ appended' = Append(appended, Message(role, content))
    /\ mret' = [op |-> "add_message"]
    /\ UNCHANGED <<max_messages, session_metadata>>
    /\ UNCHANGED <<routerVars, toolVars, agentVars, lambdaVars, sessionVars, streamVars>>

\* clear()
Clear ==
    /\ messages' = clear(messages, session_metadata).messages
    /\ session_metadata' = clear(messages, session_metadata).session_metadata
    /\ appended' = << >>
    /\ mret' = [op |-> "clear",
                before |-> [messages |-> messages, session_metadata |-> session_metadata],
                repeated |-> (mret.op = "clear")]
    /\ UNCHANGED max_messages
    /\ UNCHANGED <<routerVars, toolVars, agentVars, lambdaVars, sessionVars, streamVars>>

\* set_metadata(key, value)
SetMetadata(key, value) ==
    /\ session_metadata' = DictSet(session_metadata, key, value)
    /\ mret' = [op |-> "set_metadata"]
    /\ UNCHANGED <<max_messages, messages, appended>>
    /\ UNCHANGED <<routerVars, toolVars, agentVars, lambdaVars, sessionVars, streamVars>>

\* get_context(last_n)
GetContext(last_n) ==
    /\ mret' = [op |-> "get_context", last_n |-> last_n,
                before |-> messages, result |-> get_context(messages, last_n)]
    /\ UNCHANGED <<max_messages, messages, session_metadata, appended>>
    /\ UNCHANGED <<routerVars, toolVars, agentVars, lambdaVars, sessionVars, streamVars>>

\* the last_n arguments of get_context: left out, or 0..MaxLastN
LastNs == {None} \cup {IntVal(n) : n \in 0..MaxLastN}

InitMemory ==
    /\ \E cap \in 0..MaxCapacity : MemInit(cap)
    /\ RouterInit(CHOOSE ids \in ModelIdPairs : TRUE, FALSE)
    /\ ToolsInit
    /\ AgentInit
    /\ LambdaInit
    /\ SessionInit

NextMemory ==
    \/ \E role \in Roles, content \in Contents : AddMessage(role, content)
    \/ Clear
    \/ \E key \in MetadataKeys, value \in MetadataValues : SetMetadata(key, value)
    \/ \E last_n \in LastNs : GetContext(last_n)

SpecMemory == InitMemory /\ [][NextMemory]_vars

-----------------------------------------------------------------------------
(* The router on its own: ModelRouter(claude_model_id, titan_model_id,     *)
(* use_llm_routing) and calls of classify_query, get_model, reset_stats.   *)

\* a caller invokes classify_query(query, context_length)
CallClassifyQuery(q, c) ==
    /\ rcall.phase = "idle"
    /\ rcall' = [phase |-> "called", op |-> "classify_query", query |-> q,
                 context_length |-> c, force_model |-> None]
    /\ UNCHANGED <<claude_model_id, titan_model_id, use_llm_routing, routing_stats, ncalls>>
    /\ UNCHANGED <<memVars, toolVars, agentVars, lambdaVars, sessionVars, streamVars>>

\* classify_query runs
ClassifyQuery ==
    /\ rcall.phase = "called" /\ rcall.op = "classify_query"
    /\ rcall' = [phase |-> "returned", op |-> "classify_query", query |-> rcall.query,
                 context_length |-> rcall.context_length, force_model |-> None,
                 res |-> Returned(classify_query(rcall.query, rcall.context_length)),
                 before |-> routing_stats,
                 label |-> Returned(classify_query(rcall.query, rcall.context_length)),
                 llm |-> NoLLMCall]
    /\ UNCHANGED <<claude_model_id, titan_model_id, use_llm_routing, routing_stats, ncalls>>
    /\ UNCHANGED <<memVars, toolVars, agentVars, lambdaVars, sessionVars, streamVars>>

\* a caller invokes get_model(query, context_length, force_model)
CallGetModel(q, c, f) ==
    /\ rcall.phase = "idle"
    /\ ncalls < MaxCalls
    /\ rcall' = [phase |-> "called", op |-> "get_model", query |-> q,
                 context_length |-> c, force_model |-> f]
    /\ UNCHANGED <<claude_model_id, titan_model_id, use_llm_routing, routing_stats, ncalls>>
    /\ UNCHANGED <<memVars, toolVars, agentVars, lambdaVars, sessionVars, streamVars>>

\* get_model runs; with LLM routing the classification call does what the
\* provider does
GetModel ==
    /\ rcall.phase = "called" /\ rcall.op = "get_model"
    /\ \E o \in (IF use_llm_routing THEN LLMOutcomes ELSE {NoLLMCall}) :
        LET r == get_model(rcall.query, rcall.context_length, rcall.force_model, o)
        IN  /\ rcall' = [phase |-> "returned", op |-> "get_model", query |-> rcall.query,
                         context_length |-> rcall.context_length,
                         force_model |-> rcall.force_model,
                         res |-> r.res, before |-> routing_stats,
                         label |-> r.label,
                         llm |-> IF r.label = NotClassified THEN NoLLMCall ELSE o]
            /\ routing_stats' = r.stats
    /\ ncalls' = ncalls + 1
    /\ UNCHANGED <<claude_model_id, titan_model_id, use_llm_routing>>
    /\ UNCHANGED <<memVars, toolVars, agentVars, lambdaVars, sessionVars, streamVars>>

\* the caller has the result and goes on
RouterReturn ==
    /\ rcall.phase = "returned"
    /\ rcall' = Idle
    /\ UNCHANGED <<claude_model_id, titan_model_id, use_llm_routing, routing_stats, ncalls>>
    /\ UNCHANGED <<memVars, toolVars, agentVars, lambdaVars, sessionVars, streamVars>>

\* get_routing_stats()
GetRoutingStats ==
    /\ rcall.phase = "idle"
    /\ rcall' = [phase |-> "returned", op |-> "get_routing_stats",
                 res |-> get_routing_stats(routing_stats)]
    /\ UNCHANGED <<claude_model_id, titan_model_id, use_llm_routing, routing_stats, ncalls>>
    /\ UNCHANGED <<memVars, toolVars, agentVars, lambdaVars, sessionVars, streamVars>>

\* reset_stats()
ResetStats ==
    /\ rcall.phase = "idle"
    /\ routing_stats' = reset_stats
    /\ ncalls' = 0
    /\ rcall' = Idle
    /\ UNCHANGED <<claude_model_id, titan_model_id, use_llm_routing>>
    /\ UNCHANGED <<memVars, toolVars, agentVars, lambdaVars, sessionVars, streamVars>>

InitRouter ==
    /\ MemInit(0)
    /\ \E ids \in ModelIdPairs, llm \in BOOLEAN : RouterInit(ids, llm)
    /\ ToolsInit
    /\ AgentInit
    /\ LambdaInit
    /\ SessionInit

NextRouter ==
    \/ \E q \in Queries, c \in Contexts : CallClassifyQuery(q, c)
    \/ ClassifyQuery
    \/ \E q \in Queries, c \in Contexts, f \in ForceModels : CallGetModel(q, c, f)
    \/ GetModel
    \/ RouterReturn
    \/ GetRoutingStats
    \/ ResetStats

SpecRouter == InitRouter /\ [][NextRouter]_vars

-----------------------------------------------------------------------------
(* Properties of the router *)

GetModelReturned == rcall.phase = "returned" /\ rcall.op = "get_model"
ClassifyReturned == rcall.phase = "returned" /\ rcall.op = "classify_query"

\* a and b are the same string up to the case of their letters
SameIgnoringCase(a, b) ==
    /\ Len(a) = Len(b)
    /\ \A i \in 1..Len(a) :
          \/ CharAt(a, i) = CharAt(b, i)
          \/ <<CharAt(a, i), CharAt(b, i)>> \in
                {<<CharAt(UpperAlpha, k), CharAt(LowerAlpha, k)>> : k \in 1..Len(UpperAlpha)}
                \cup {<<CharAt(LowerAlpha, k), CharAt(UpperAlpha, k)>> : k \in 1..Len(UpperAlpha)}

ForcedTo(f, name) == f.tag = "str" /\ SameIgnoringCase(f.s, name)

\* the text matches some pattern of the list
MatchesAny(patterns, text) == \E i \in 1..Len(patterns) : ReSearch(patterns[i], text)

\* C6: get_model with force_model equal to "claude" or "titan" up to case
\* returns the corresponding configured model id and does not run a
\* classifier; with force_model absent or any other string it runs the
\* classifier and returns the claude id for COMPLEX, the titan id for SIMPLE.
C6_GetModelResolves ==
    GetModelReturned =>
        LET f == rcall.force_model
        IN  /\ ForcedTo(f, "claude") =>
                 rcall.res = Returned(claude_model_id) /\ rcall.label = NotClassified
            /\ ForcedTo(f, "titan") =>
                 rcall.res = Returned(titan_model_id) /\ rcall.label = NotClassified
            /\ (~ForcedTo(f, "claude") /\ ~ForcedTo(f, "titan")) =>
                 /\ rcall.label # NotClassified
                 /\ ~use_llm_routing =>
                      rcall.label = Returned(classify_query(rcall.query, rcall.context_length))
                 /\ rcall.label = Returned(COMPLEX) => rcall.res = Returned(claude_model_id)
                 /\ rcall.label = Returned(SIMPLE) => rcall.res = Returned(titan_model_id)

\* a forced call in other letter case on a query the classifier would send
\* the other way, and an unforced call with another string
C6_Witness ==
    /\ GetModelReturned
    /\ rcall.force_model = Str("CLAUDE")
    /\ classify_query(rcall.query, rcall.context_length) = SIMPLE
    /\ rcall.res = Returned(claude_model_id)
    /\ rcall.label = NotClassified

\* C7: every get_model call increments exactly one routing counter by 1, the
\* one of the model id it returns, and leaves the other unchanged; forced to
\* "claude" it is the claude counter; the counts sum to the number of
\* get_model calls since the last reset.
C7_OneCounterPerCall ==
    /\ GetModelReturned =>
          /\ \/ /\ rcall.res = Returned(claude_model_id)
                /\ routing_stats = Incr(rcall.before, "claude")
             \/ /\ rcall.res = Returned(titan_model_id)
                /\ routing_stats = Incr(rcall.before, "titan")
          /\ ForcedTo(rcall.force_model, "claude") =>
                routing_stats = Incr(rcall.before, "claude")
    /\ rcall.phase # "called" => routing_stats.claude + routing_stats.titan = ncalls

OrderedProcedure(query, context_length) ==
    LET text  == StrStrip(StrLower(query))
        words == WordCount(query)
    IN  CASE MatchesAny(SIMPLE_PATTERNS, text) -> SIMPLE
          [] ~MatchesAny(SIMPLE_PATTERNS, text) /\ MatchesAny(COMPLEX_PATTERNS, text) -> COMPLEX
          [] OTHER ->
               IF words <= 5 THEN SIMPLE
               ELSE IF words > 50 \/ context_length > 10 THEN COMPLEX
               ELSE IF \E w \in {"why", "how", "explain", "analyze", "troubleshoot"} :
                          StrContains(text, w) THEN COMPLEX
               ELSE SIMPLE

\* C9: classify_query is the ordered first-match-wins procedure (simple
\* patterns, complex patterns, word count <= 5, word count > 50 or context > 10,
\* keywords, else SIMPLE) on every input, whatever calls came before.
C9_ClassifyIsOrderedProcedure ==
    ClassifyReturned =>
        rcall.res = Returned(OrderedProcedure(rcall.query, rcall.context_length))

\* after earlier get_model calls, a query that matches a simple and a complex
\* pattern is SIMPLE
C9_Witness ==
    /\ ClassifyReturned
    /\ ncalls > 0
    /\ MatchesAny(SIMPLE_PATTERNS, StrStrip(StrLower(rcall.query)))
    /\ MatchesAny(COMPLEX_PATTERNS, StrStrip(StrLower(rcall.query)))
    /\ rcall.res = Returned(SIMPLE)

\* C13: with LLM-based routing enabled get_model never fails: whatever the
\* classification call does, a model id is returned and one counter is
\* incremented, and after a failed classification call the label is the one
\* the heuristic classifier gives the query.
C13_LLMRoutingNeverFails ==
    (GetModelReturned /\ use_llm_routing) =>
        /\ ~rcall.res.raised
        /\ rcall.res.value \in {claude_model_id, titan_model_id}
        /\ routing_stats.claude + routing_stats.titan
              = rcall.before.claude + rcall.before.titan + 1
        /\ rcall.llm.kind = "raise" =>
              rcall.label = Returned(classify_query(rcall.query, 0))

\* get_routing_stats has returned
StatsReturned == rcall.phase = "returned" /\ rcall.op = "get_routing_stats"

\* C17: when no get_model call was made since construction or since the last
\* reset_stats, both counters are 0 (reset_stats zeroes them after any
\* history of calls) and get_routing_stats returns count 0 and percentage 0
\* for both strategies, without a division by zero.
C17_StatsZeroWithoutCalls ==
    /\ ncalls = 0 => routing_stats = [claude |-> 0, titan |-> 0]
    /\ (StatsReturned /\ ncalls = 0) =>
          rcall.res = Returned([claude |-> 0, titan |-> 0, claude_pct |-> 0, titan_pct |-> 0])
    /\ StatsReturned => ~rcall.res.raised

\* the statistics were asked for when no call had been counted
C17_Witness ==
    /\ StatsReturned
    /\ ncalls = 0
    /\ rcall.res.value.claude_pct = 0
    /\ rcall.res.value.titan_pct = 0

-----------------------------------------------------------------------------
(* Properties of the memory log *)

\* the last k elements of a sequence
Tail_k(xs, k) == [i \in 1..k |-> xs[Len(xs) - k + i]]

\* C1: with capacity k >= 1, after any sequence of add_message, clear and
\* set_metadata the log never holds more than k messages.
C1_LengthWithinCapacity ==
    max_messages >= 1 => Len(messages) <= max_messages

\* more messages were added than the capacity, metadata was set, and the log
\* is full
C1_Witness ==
    /\ max_messages >= 1
    /\ Len(appended) > max_messages
    /\ Len(messages) = max_messages
    /\ DOMAIN session_metadata # {}

\* C2: for every capacity k >= 0, once n > k messages were added to an empty
\* log, the log holds exactly the last k of them, in the order they were added.
C2_LastKRetained ==
    Len(appended) > max_messages =>
        /\ Len(messages) = max_messages
        /\ messages = Tail_k(appended, max_messages)

\* the {role, content} pairs of a list of messages
Pairs(msgs) == [i \in 1..Len(msgs) |-> [role |-> msgs[i].role, content |-> msgs[i].content]]

\* the smaller of two numbers
Min(a, b) == IF a <= b THEN a ELSE b

\* C15: get_context(last_n) leaves the log as it is and returns the last
\* min(last_n, length) messages as {role, content} pairs, oldest first, for
\* every last_n >= 0 that is given, and all messages when last_n is left out.
C15_GetContextLastN ==
    (mret.op = "get_context") =>
        /\ messages = mret.before
        /\ mret.result =
              IF mret.last_n = None THEN Pairs(mret.before)
              ELSE Pairs(Tail_k(mret.before, Min(mret.last_n.n, Len(mret.before))))

\* C16: clear() leaves the message list and the session metadata empty from
\* any state of the log, and so does a second clear() right after it.
C16_ClearIsIdempotent ==
    (mret.op = "clear") =>
        /\ messages = << >>
        /\ DOMAIN session_metadata = {}
        /\ mret.repeated =>
              /\ mret.before.messages = << >>
              /\ DOMAIN mret.before.session_metadata = {}

\* a log with messages and metadata was cleared twice in a row
C16_Witness ==
    /\ mret.op = "clear"
    /\ mret.repeated
    /\ messages = << >>
    /\ DOMAIN session_metadata = {}

-----------------------------------------------------------------------------
(* TicketTools, KnowledgeBaseTools and the tool dispatcher.  A dict is a   *)
(* function from its keys; the values handed to a tool are None or Str(s). *)

ToolResult(success, data, error) == [success |-> success, data |-> data, error |-> error]

\* a parsed JSON document
Json(v) == [tag |-> "json", v |-> v]

\* a call of the requests session or of the bedrock client, as the transport sees it
Request(method, path, data) == [method |-> method, path |-> path, data |-> data]

\* What one call of the requests session can do: a 2xx answer with a JSON
\* body, a 2xx answer whose body is no JSON, a timeout, an HTTP error status
\* (its body a JSON object with or without "error", or no JSON), or any other
\* exception of the transport.
ApiOutcomes ==
    { [kind |-> "ok", json |-> Json("ticket TKT-1")],
      [kind |-> "ok_not_json", msg |-> "Expecting value: line 1 column 1 (char 0)"],
      [kind |-> "timeout"],
      [kind |-> "http_error", raw |-> "404 Client Error: Not Found for url",
       json |-> TRUE, body |-> [error |-> Str("Ticket not found")]],
      [kind |-> "http_error", raw |-> "500 Server Error: Internal Server Error for url",
       json |-> TRUE, body |-> [message |-> Str("Internal server error")]],
      [kind |-> "http_error", raw |-> "400 Client Error: Bad Request for url",
       json |-> TRUE, body |-> [error |-> None]],
      [kind |-> "http_error", raw |-> "502 Server Error: Bad Gateway for url",
       json |-> FALSE, body |-> EmptyDict],
      [kind |-> "exception", msg |-> "Connection refused"] }

\* What bedrock_runtime.invoke_model and the parsing of its answer can do in
\* get_embedding: a vector, an answer without "embedding", a botocore
\* ClientError, or any other exception.
EmbedOutcomes ==
    { [kind |-> "embedding", vector |-> <<1, 2>>],
      [kind |-> "embedding", vector |-> << >>],
      [kind |-> "client_error", msg |-> "An error occurred (ThrottlingException)"],
      [kind |-> "exception", msg |-> "Could not connect to the endpoint URL"] }

\* dict.get(key, default)
DictGet(d, key, default) == IF key \in DOMAIN d THEN d[key] ELSE default

\* _call_api that sends the request again after a timeout
_call_api_retrying(method, path, data, outcome) ==
    [raised |-> FALSE,
     requests |-> IF outcome.kind = "timeout"
                  THEN <<Request(method, path, data), Request(method, path, data)>>
                  ELSE <<Request(method, path, data)>>,
     value |-> IF outcome.kind = "ok" THEN ToolResult(TRUE, outcome.json, None)
               ELSE ToolResult(FALSE, None, Str("API request failed"))]

\* TicketTools._call_api: the result and the calls made on the session
_call_api(method, path, data, outcome) ==
    IF method \notin {"GET", "POST", "PATCH", "DELETE"}
    THEN [raised |-> FALSE,
          value |-> ToolResult(FALSE, None, Str("Unknown method: " \o method)),
          requests |-> << >>]
    ELSE [raised |-> FALSE,
          requests |-> <<Request(method, path, data)>>,
          value |->
            CASE outcome.kind = "ok" -> ToolResult(TRUE, outcome.json, None)
              [] outcome.kind = "ok_not_json" -> ToolResult(FALSE, None, Str(outcome.msg))
              [] outcome.kind = "timeout" -> ToolResult(FALSE, None, Str("API request timed out"))
              [] outcome.kind = "http_error" ->
                   IF outcome.json
                   THEN ToolResult(FALSE, None, DictGet(outcome.body, "error", Str(outcome.raw)))
                   ELSE ToolResult(FALSE, None, Str(outcome.raw))
              [] OTHER -> ToolResult(FALSE, None, Str(outcome.msg))]

\* the keys of d, among keys, whose value is truthy, with their values
TruthyItems(d, keys) == [k \in {x \in keys : Truthy(d[x])} |-> d[k]]

\* TicketTools.create_ticket
create_ticket(args, outcome) ==
    LET data == [k \in {"title", "description", "priority", "category"}
                       \cup (IF Truthy(args.customer_id) THEN {"customer_id"} ELSE {})
                    |-> args[k]]
    IN  _call_api("POST", "/tickets", data, outcome)

\* TicketTools.get_ticket
get_ticket(args, outcome) ==
    _call_api("GET", "/tickets/" \o args.ticket_id.s, None, outcome)

\* update_ticket without the check of tools.py:160-161
update_ticket_unchecked(args, outcome) ==
    _call_api("PATCH", "/tickets/" \o args.ticket_id.s,
              TruthyItems(args, {"status", "priority", "note", "assigned_to"}), outcome)

\* TicketTools.update_ticket
update_ticket(args, outcome) ==
    LET data == TruthyItems(args, {"status", "priority", "note", "assigned_to"})
    IN  IF DOMAIN data = {}
        THEN [raised |-> FALSE,
              value |-> ToolResult(FALSE, None, Str("No updates provided")),
              requests |-> << >>]
        ELSE _call_api("PATCH", "/tickets/" \o args.ticket_id.s, data, outcome)

\* TicketTools.list_tickets
list_tickets(args, outcome) ==
    LET query_string ==
            "limit=" \o args.limit.s
            \o (IF Truthy(args.status) THEN "&status=" \o args.status.s ELSE "")
            \o (IF Truthy(args.customer_id) THEN "&customer_id=" \o args.customer_id.s ELSE "")
    IN  _call_api("GET", "/tickets?" \o query_string, None, outcome)

\* KnowledgeBaseTools.get_embedding: the vector, or the exception that leaves it
get_embedding(text, outcome) ==
    [requests |-> <<Request("invoke_model", "bedrock-runtime", [inputText |-> text])>>,
     raised   |-> outcome.kind = "exception",
     value    |-> CASE outcome.kind = "embedding" -> outcome.vector
                    [] outcome.kind = "client_error" -> << >>
                    [] OTHER -> outcome.msg]

\* KnowledgeBaseTools.search_knowledge_base
search_knowledge_base(args, outcome) ==
    LET embedding == get_embedding(args.query, outcome)
    IN  IF embedding.raised THEN embedding
        ELSE [raised |-> FALSE, requests |-> embedding.requests,
              value |->
                IF embedding.value = << >>
                THEN ToolResult(FALSE, None, Str("Failed to generate embedding"))
                ELSE ToolResult(TRUE,
                                [query |-> args.query, results |-> << >>,
                                 message |-> "Knowledge base search not yet implemented"],
                                None)]

\* the parameters of the tool methods: the required ones in order, and the
\* defaults of the others
Signatures ==
    [create_ticket |->
        [qualname |-> "TicketTools.create_ticket",
         required |-> <<"title", "description">>,
         defaults |-> [priority |-> Str("Medium"), category |-> Str("General"),
                       customer_id |-> None]],
     get_ticket |->
        [qualname |-> "TicketTools.get_ticket",
         required |-> <<"ticket_id">>, defaults |-> EmptyDict],
     update_ticket |->
        [qualname |-> "TicketTools.update_ticket",
         required |-> <<"ticket_id">>,
         defaults |-> [status |-> None, priority |-> None, note |-> None,
                       assigned_to |-> None]],
     list_tickets |->
        [qualname |-> "TicketTools.list_tickets",
         required |-> << >>,
         defaults |-> [status |-> None, customer_id |-> None, limit |-> Str("10")]],
     search_knowledge_base |->
        [qualname |-> "KnowledgeBaseTools.search_knowledge_base",
         required |-> <<"query">>, defaults |-> [top_k |-> Str("5")]]]

\* the names _execute_tool dispatches on
Registry == DOMAIN Signatures

\* the elements of a sequence of names that are in a set, in order
Keep(names, set) ==
    LET F[i \in 0..Len(names)] ==
            IF i = 0 THEN << >>
            ELSE IF names[i] \in set THEN Append(F[i - 1], names[i]) ELSE F[i - 1]
    IN  F[Len(names)]

\* 'a', 'a' and 'b': the names of a TypeError's text
Quoted(names) ==
    IF Len(names) = 1 THEN "'" \o names[1] \o "'"
    ELSE "'" \o names[1] \o "' and '" \o names[2] \o "'"

\* f(**tool_input): the parameters bound to their values, or the TypeError of
\* a keyword that f does not take or of a required parameter left out
Bind(sig, tool_input) ==
    LET keys       == DOMAIN tool_input
        params     == {sig.required[i] : i \in 1..Len(sig.required)} \cup DOMAIN sig.defaults
        unexpected == keys \ params
        missing    == Keep(sig.required, params \ keys)
    IN  IF unexpected # {}
        THEN Raised(sig.qualname \o "() got an unexpected keyword argument '"
                    \o (CHOOSE k \in unexpected : TRUE) \o "'")
        ELSE IF missing # << >>
        THEN Raised(sig.qualname \o "() missing "
                    \o (IF Len(missing) = 1 THEN "1 required positional argument: "
                        ELSE "2 required positional arguments: ")
                    \o Quoted(missing))
        ELSE Returned([p \in params |->
                         IF p \in keys THEN tool_input[p] ELSE sig.defaults[p]])

\* MSPSupportAgent._execute_tool: the ToolResult and the calls made on the
\* transports
_execute_tool(tool_name, tool_input, outcome) ==
    IF tool_name \notin Registry
    THEN [result |-> ToolResult(FALSE, None, Str("Unknown tool: " \o tool_name)),
          requests |-> << >>]
    ELSE
      LET bound == Bind(Signatures[tool_name], tool_input)
      IN  IF bound.raised
          THEN [result |-> ToolResult(FALSE, None, Str(bound.value)), requests |-> << >>]
          ELSE
            LET args == bound.value
                r == CASE tool_name = "create_ticket" -> create_ticket(args, outcome)
                       [] tool_name = "get_ticket" -> get_ticket(args, outcome)
                       [] tool_name = "update_ticket" -> update_ticket(args, outcome)
                       [] tool_name = "list_tickets" -> list_tickets(args, outcome)
                       [] OTHER -> search_knowledge_base(args, outcome)
            IN  IF r.raised
                THEN [result |-> ToolResult(FALSE, None, Str(r.value)),
                      requests |-> r.requests]
                ELSE [result |-> r.value, requests |-> r.requests]

\* what the transport of a tool can do
OutcomesFor(tool_name) ==
    IF tool_name = "search_knowledge_base" THEN EmbedOutcomes ELSE ApiOutcomes

-----------------------------------------------------------------------------
(* The dispatcher on its own: calls of _execute_tool.                      *)

ToolNames == Registry \cup {"delete_ticket", "send_email"}

ToolInputs ==
    { EmptyDict,
      [title |-> Str("VPN down")],
      [description |-> Str("VPN drops every hour")],
      [title |-> Str("VPN down"), description |-> Str("VPN drops every hour")],
      [title |-> Str("VPN down"), description |-> Str("VPN drops every hour"),
       priority |-> Str("High"), customer_id |-> Str("CUST-1")],
      [title |-> Str("VPN down"), description |-> Str("VPN drops every hour"),
       colour |-> Str("red")],
      [ticket_id |-> Str("TKT-1")],
      [ticket_id |-> Str("TKT-1"), status |-> Str("Resolved")],
      [ticket_id |-> Str("TKT-1"), note |-> Str("")],
      [ticket_id |-> Str("TKT-1"), note |-> Str("called back"), assigned_to |-> Str("sam")],
      [status |-> Str("Open")],
      [status |-> Str("Open"), customer_id |-> Str("CUST-1"), limit |-> Str("5")],
      [query |-> Str("vpn keeps disconnecting")],
      [query |-> Str("vpn keeps disconnecting"), top_k |-> Str("3")] }

\* _execute_tool(tool_name, tool_input)
ExecuteTool(tool_name, tool_input) ==
    /\ \E outcome \in OutcomesFor(tool_name) :
         LET r == _execute_tool(tool_name, tool_input, outcome)
         IN  tcall' = [phase |-> "returned", tool_name |-> tool_name,
                       tool_input |-> tool_input, outcome |-> outcome,
                       result |-> r.result, requests |-> r.requests]
    /\ UNCHANGED <<memVars, routerVars, agentVars, lambdaVars, sessionVars, streamVars>>

InitTools ==
    /\ MemInit(0)
    /\ RouterInit(CHOOSE ids \in ModelIdPairs : TRUE, FALSE)
    /\ ToolsInit
    /\ AgentInit
    /\ LambdaInit
    /\ SessionInit

NextTools == \E tool_name \in ToolNames, tool_input \in ToolInputs :
                 ExecuteTool(tool_name, tool_input)

SpecTools == InitTools /\ [][NextTools]_vars

-----------------------------------------------------------------------------
(* Properties of the dispatcher *)

ToolReturned == tcall.phase = "returned"

\* the update fields of update_ticket
UpdateFields == {"status", "priority", "note", "assigned_to"}

\* the invocation at hand fails validation: a create without title or without
\* description, an update without any update field that has a value, or a
\* name outside the registry
FailsValidation ==
    \/ /\ tcall.tool_name = "create_ticket"
       /\ {"title", "description"} \ DOMAIN tcall.tool_input # {}
    \/ /\ tcall.tool_name = "update_ticket"
       /\ \A f \in UpdateFields :
             f \in DOMAIN tcall.tool_input => ~Truthy(tcall.tool_input[f])
    \/ tcall.tool_name \notin Registry

\* C10: a dispatcher invocation that fails validation (create_ticket without
\* title or description, update_ticket with no update field, a name outside
\* the registry) returns success = false with an error text, "Unknown tool:
\* <name>" for the unknown name, and makes no network call.
C10_ValidationFailureMakesNoCall ==
    (ToolReturned /\ FailsValidation) =>
        /\ tcall.result.success = FALSE
        /\ tcall.result.data = None
        /\ tcall.result.error.tag = "str" /\ tcall.result.error.s # ""
        /\ tcall.tool_name \notin Registry =>
              tcall.result.error = Str("Unknown tool: " \o tcall.tool_name)
        /\ tcall.requests = << >>

\* create_ticket with only a title was refused without a call
C10_Witness ==
    /\ ToolReturned
    /\ tcall.tool_name = "create_ticket"
    /\ DOMAIN tcall.tool_input = {"title"}
    /\ tcall.result.success = FALSE
    /\ tcall.requests = << >>

\* the transport call of the invocation at hand was made and failed: a
\* timeout, an HTTP error status, a body that cannot be read, or another
\* exception
TransportFailed ==
    /\ tcall.requests # << >>
    /\ tcall.outcome.kind \in {"timeout", "http_error", "ok_not_json", "client_error",
                               "exception"}

\* the error message of an HTTP error's body, when the body has one
BodyMessage(outcome) ==
    IF outcome.json /\ "error" \in DOMAIN outcome.body /\ Truthy(outcome.body.error)
    THEN outcome.body.error
    ELSE Str(outcome.raw)

\* C11: the dispatcher never raises; a timeout, an HTTP error status or any
\* other exception of the network call comes back as a ToolResult with
\* success = false, no data and a non-empty error text (for an HTTP error the
\* message of the response body when there is one, else the raw error), and a
\* result with success = true carries no error.
C11_TransportFailureIsErrorResult ==
    ToolReturned =>
        /\ TransportFailed =>
              /\ tcall.result.success = FALSE
              /\ tcall.result.data = None
              /\ tcall.result.error.tag = "str"
              /\ tcall.result.error.s # ""
        /\ (TransportFailed /\ tcall.outcome.kind = "http_error") =>
              tcall.result.error = BodyMessage(tcall.outcome)
        /\ tcall.result.success => tcall.result.error = None

\* the invocation at hand is of a registered operation and its arguments pass
\* validation
PassesValidation ==
    /\ tcall.tool_name \in Registry
    /\ ~Bind(Signatures[tcall.tool_name], tcall.tool_input).raised
    /\ ~FailsValidation

\* C12: a dispatcher invocation of a registered operation whose arguments
\* pass validation makes exactly one network call, whether the call succeeds
\* or fails.
C12_ExactlyOneCall ==
    (ToolReturned /\ PassesValidation) => Len(tcall.requests) = 1

\* an update and a knowledge search whose one call failed
C12_Witness ==
    /\ ToolReturned
    /\ PassesValidation
    /\ tcall.tool_name \in {"update_ticket", "search_knowledge_base"}
    /\ tcall.outcome.kind \in {"timeout", "exception"}
    /\ tcall.result.success = FALSE
    /\ Len(tcall.requests) = 1

-----------------------------------------------------------------------------
(* MSPSupportAgent.process_message, one step per stage of the turn:        *)
(*   ProcessMessage  the call: the user message goes to memory  (281-284)  *)
(*   Route           get_model, the in-flight list, the tools   (287-304)  *)
(*   InvokeModel     _invoke_model                              (308, 342) *)
(*   ToolStep        one content block of a tool_use reply, or the end of  *)
(*                   the round                                  (311-339)  *)
(*   WriteAssistant  the final text goes to memory and back     (345-353)  *)
(* and the handler of agent.py:355-359 where an exception is caught.       *)

\* most process_message calls on one agent
MaxTurns == 2
\* The in-flight list of the code grows by one pair per round of tool calls,
\* without end.  The model's state keeps the formatted context and the last
\* MaxPairs pairs of it.
MaxPairs == 1

Text(t) == [type |-> "text", text |-> t]
ToolUse(id, name, input) == [type |-> "tool_use", id |-> id, name |-> name, input |-> input]

\* What bedrock_runtime.invoke_model and json.loads of its body can do for an
\* Anthropic model: a reply that ends the turn, a reply that asks for tools,
\* a reply with stop_reason tool_use and no content, a botocore ClientError,
\* any other exception.
AnthropicOutcomes ==
    { [kind |-> "body",
       body |-> [stop_reason |-> "end_turn",
                 content |-> <<Text("I have logged that. "), Text("Anything else?")>>]],
      [kind |-> "body",
       body |-> [stop_reason |-> "tool_use",
                 content |-> <<Text("Let me look."),
                               ToolUse("tu_1", "get_ticket", [ticket_id |-> Str("TKT-1")])>>]],
      [kind |-> "body",
       body |-> [stop_reason |-> "tool_use",
                 content |-> <<ToolUse("tu_1", "create_ticket", [title |-> Str("VPN down")]),
                               ToolUse("tu_2", "send_email", EmptyDict)>>]],
      [kind |-> "body", body |-> [stop_reason |-> "tool_use"]],
      [kind |-> "client_error",
       msg |-> "An error occurred (ThrottlingException) when calling the InvokeModel operation: Too many requests"],
      [kind |-> "exception",
       msg |-> "Could not connect to the endpoint URL"] }

\* The same for a model of the other format: a body with results, a body
\* whose results are empty, a ClientError.
TitanOutcomes ==
    { [kind |-> "body", body |-> [results |-> <<[outputText |-> "Hello! How can I help?"]>>]],
      [kind |-> "body", body |-> [results |-> << >>]],
      [kind |-> "client_error",
       msg |-> "An error occurred (ThrottlingException) when calling the InvokeModel operation: Too many requests"] }

\* agent.py:204 and 249
IsAnthropic(id) == StrContains(StrLower(id), "anthropic")

ModelOutcomes(id) == IF IsAnthropic(id) THEN AnthropicOutcomes ELSE TitanOutcomes

\* what the transport of a tool can do during a turn
TurnOutcomesFor(tool_name) ==
    IF tool_name = "search_knowledge_base" THEN EmbedOutcomes
    ELSE {o \in ApiOutcomes : o.kind \in {"ok", "timeout"}}

\* MSPSupportAgent._invoke_model: the response, or the exception that leaves it
_invoke_model(msgs, id, with_tools, outcome) ==
    IF outcome.kind # "body" THEN Raised(outcome.msg)
    ELSE IF IsAnthropic(id) THEN Returned(outcome.body)
    ELSE IF DictGet(outcome.body, "results", <<EmptyDict>>) = << >>
         THEN Raised("list index out of range")
         ELSE Returned([content |-> <<Text(DictGet(DictGet(outcome.body, "results",
                                                          <<EmptyDict>>)[1],
                                                  "outputText", ""))>>,
                        stop_reason |-> "end_turn"])

\* MemoryManager.get_conversation_context(): role and content of every message
get_conversation_context(msgs) ==
    [i \in 1..Len(msgs) |-> [role |-> msgs[i].role, content |-> msgs[i].content]]

\* agent.py:294-301
FormatMessages(ctx) ==
    [i \in 1..Len(ctx) |-> [role |-> ctx[i].role, content |-> <<Text(ctx[i].content)>>]]

\* agent.py:304
UseTools(id) == StrContains(StrLower(id), "claude")

\* a tool_result block that carries no call id
ToolResultBlock_untagged(tool_use_id, result) ==
    [type |-> "tool_result", tool_use_id |-> "",
     content |-> [tag |-> "json.dumps", success |-> result.success,
                  data |-> result.data, error |-> result.error]]

\* agent.py:324-335, the tool_result block of a ToolResult
ToolResultBlock(tool_use_id, result) ==
    [type |-> "tool_result", tool_use_id |-> tool_use_id,
     content |-> [tag |-> "json.dumps", success |-> result.success,
                  data |-> result.data, error |-> result.error]]

\* agent.py:338-339, kept to the context and the last MaxPairs pairs
AppendPair(msgs, ncontext, assistant_content, results) ==
    LET pair == <<[role |-> "assistant", content |-> assistant_content],
                  [role |-> "user", content |-> results]>>
        all  == msgs \o pair
    IN  IF Len(all) - ncontext > 2 * MaxPairs
        THEN SubSeq(all, 1, ncontext) \o SubSeq(all, ncontext + 3, Len(all))
        ELSE all

\* agent.py:345-348, the texts of the text blocks, joined
RECURSIVE FinalText(_, _)
FinalText(content, i) ==
    IF i > Len(content) THEN ""
    ELSE (IF content[i].type = "text" THEN DictGet(content[i], "text", "") ELSE "")
         \o FinalText(content, i + 1)

\* an error_response that leaves the error out
error_response_blank(e) == ""

\* agent.py:357
error_response(e) == "I apologize, but I encountered an error: " \o e

\* process_message(user_message, force_model) is called: agent.py:281-284
ProcessMessage(msg, force) ==
    /\ pc \in {"idle", "DONE", "RAISED"}
    /\ turns < MaxTurns
    /\ messages' = add_message(messages, max_messages, "user", msg)
    /\ appended' = Append(appended, Message("user", msg))
    /\ context' = get_conversation_context(messages')
    /\ user_message' = msg
    /\ pm_force_model' = force
    /\ pc' = "ROUTE"
    /\ model_id' = ""
    /\ tools' = FALSE
    /\ inflight' = << >>
    /\ response' = NoResponse
    /\ block' = 0
    /\ tool_results' = << >>
    /\ caught' = None
    /\ reply' = NoReply
    /\ turns' = turns + 1
    /\ UNCHANGED <<max_messages, session_metadata, mret>>
    /\ UNCHANGED <<routerVars, toolVars, lambdaVars, sessionVars, streamVars>>

\* agent.py:287-304; an exception of get_model leaves process_message
Route ==
    /\ pc = "ROUTE"
    /\ \E o \in (IF use_llm_routing THEN LLMOutcomes ELSE {NoLLMCall}) :
        LET r == get_model(user_message, Len(context), pm_force_model, o)
        IN  /\ rcall' = [phase |-> "returned", op |-> "get_model", query |-> user_message,
                         context_length |-> Len(context),
                         force_model |-> pm_force_model,
                         res |-> r.res, before |-> routing_stats,
                         label |-> r.label,
                         llm |-> IF r.label = NotClassified THEN NoLLMCall ELSE o]
            /\ routing_stats' = r.stats
            /\ IF r.res.raised
               THEN /\ pc' = "RAISED"
                    /\ reply' = [kind |-> "raised", exc |-> r.res.value]
                    /\ UNCHANGED <<model_id, inflight, tools>>
               ELSE /\ pc' = "INVOKE_MODEL"
                    /\ model_id' = r.res.value
                    /\ inflight' = FormatMessages(context)
                    /\ tools' = UseTools(r.res.value)
                    /\ UNCHANGED reply
    /\ ncalls' = ncalls + 1
    /\ UNCHANGED <<claude_model_id, titan_model_id, use_llm_routing>>
    /\ UNCHANGED <<user_message, pm_force_model, context, response, block,
                   tool_results, caught, turns>>
    /\ UNCHANGED <<memVars, toolVars, lambdaVars, sessionVars, streamVars>>

\* agent.py:355-359: the handler of the exception e
Handle(e) ==
    /\ caught' = Str(e)
    /\ messages' = add_message(messages, max_messages, "assistant", error_response(e))
    /\ appended' = Append(appended, Message("assistant", error_response(e)))
    /\ reply' = [kind |-> "returned", text |-> error_response(e)]
    /\ pc' = "DONE"

\* agent.py:308 and 342: the model is invoked and replies, or the call raises
InvokeModel ==
    /\ pc = "INVOKE_MODEL"
    /\ \E o \in ModelOutcomes(model_id) :
        LET r == _invoke_model(inflight, model_id, tools, o)
        IN  IF r.raised
            THEN /\ Handle(r.value)
                 /\ UNCHANGED <<response, block, tool_results>>
            ELSE /\ response' = r.value
                 /\ IF r.value.stop_reason = "tool_use"
                    THEN /\ pc' = "TOOL_LOOP"
                         /\ block' = 1
                         /\ tool_results' = << >>
                    ELSE /\ pc' = "MEMORY_WRITE_ASSISTANT"
                         /\ UNCHANGED <<block, tool_results>>
                 /\ UNCHANGED <<messages, appended, caught, reply>>
    /\ UNCHANGED <<user_message, pm_force_model, context, model_id, tools, inflight, turns>>
    /\ UNCHANGED <<max_messages, session_metadata, mret>>
    /\ UNCHANGED <<routerVars, toolVars, lambdaVars, sessionVars, streamVars>>

\* agent.py:314-339: the block at hand is a tool call and is executed, or is
\* passed over; after the last block the pair goes to the in-flight list
ToolStep ==
    /\ pc = "TOOL_LOOP"
    /\ LET content == DictGet(response, "content", << >>)
       IN  IF block <= Len(content)
           THEN /\ IF content[block].type = "tool_use"
                   THEN \E o \in TurnOutcomesFor(content[block].name) :
                          LET r == _execute_tool(content[block].name,
                                                 content[block].input, o)
                          IN  /\ tool_results' =
                                    Append(tool_results,
                                           ToolResultBlock(content[block].id, r.result))
                              /\ tcall' = [phase |-> "returned",
                                           tool_name |-> content[block].name,
                                           tool_input |-> content[block].input,
                                           outcome |-> o,
                                           result |-> r.result,
                                           requests |-> r.requests]
                   ELSE UNCHANGED <<tool_results, tcall>>
                /\ block' = block + 1
                /\ UNCHANGED <<pc, inflight, messages, appended, caught, reply>>
           ELSE IF "content" \notin DOMAIN response
           THEN /\ Handle("'content'")
                /\ UNCHANGED <<inflight, block, tool_results, tcall>>
           ELSE /\ inflight' = AppendPair(inflight, Len(context), response.content,
                                          tool_results)
                /\ pc' = "INVOKE_MODEL"
                /\ UNCHANGED <<block, tool_results, tcall, messages, appended, caught, reply>>
    /\ UNCHANGED <<user_message, pm_force_model, context, model_id, tools, response, turns>>
    /\ UNCHANGED <<max_messages, session_metadata, mret>>
    /\ UNCHANGED <<routerVars, lambdaVars, sessionVars, streamVars>>

\* agent.py:345-353
WriteAssistant ==
    /\ pc = "MEMORY_WRITE_ASSISTANT"
    /\ LET final_response == FinalText(DictGet(response, "content", << >>), 1)
       IN  /\ messages' = add_message(messages, max_messages, "assistant", final_response)
           /\ appended' = Append(appended, Message("assistant", final_response))
           /\ reply' = [kind |-> "returned", text |-> final_response]
    /\ pc' = "DONE"
    /\ UNCHANGED <<user_message, pm_force_model, context, model_id, tools, inflight,
                   response, block, tool_results, caught, turns>>
    /\ UNCHANGED <<max_messages, session_metadata, mret>>
    /\ UNCHANGED <<routerVars, toolVars, lambdaVars, sessionVars, streamVars>>

\* the messages users send
UserMessages == {"ok", "Explain in detail how the authentication system works"}

\* the force_model arguments of process_message: none, a name, an object
\* that is no string
TurnForceModels == {None, Str("claude"), NonStr}

\* short_term_memory_size of the configuration
AgentCapacities == {0, 1, 2}

\* BEDROCK_CLAUDE_MODEL and BEDROCK_TITAN_MODEL of the configuration: the pairs of the
\* router, and a capable and a cheap model of the same provider
AgentModelIdPairs ==
    ModelIdPairs \cup
    { <<"anthropic.claude-3-sonnet-20240229-v1:0", "anthropic.claude-3-haiku-20240307-v1:0">> }

\* MSPSupportAgent.__init__: the router is built without use_llm_routing
InitAgent ==
    /\ \E cap \in AgentCapacities : MemInit(cap)
    /\ \E ids \in AgentModelIdPairs : RouterInit(ids, FALSE)
    /\ ToolsInit
    /\ AgentInit
    /\ LambdaInit
    /\ SessionInit

\* the steps of a turn under way
TurnStep == Route \/ InvokeModel \/ ToolStep \/ WriteAssistant

NextAgent ==
    \/ \E msg \in UserMessages, force \in TurnForceModels : ProcessMessage(msg, force)
    \/ Route
    \/ InvokeModel
    \/ ToolStep
    \/ WriteAssistant

SpecAgent == InitAgent /\ [][NextAgent]_vars

\* a call of process_message that was made goes on: the interpreter runs it
FairSpecAgent == InitAgent /\ [][NextAgent]_vars /\ WF_vars(TurnStep)

-----------------------------------------------------------------------------
(* Properties of process_message *)

\* the call has ended: it returned, or an exception left it
TurnOver == pc \in {"DONE", "RAISED"}
InTurn == pc \in {"ROUTE", "INVOKE_MODEL", "TOOL_LOOP", "MEMORY_WRITE_ASSISTANT"}

\* C3: process_message never raises to its caller; a call that has ended is in
\* DONE with a returned reply that is the last entry of memory, an assistant
\* entry, and after a failure this reply is the synthesized error message.
C3_NeverRaises ==
    TurnOver =>
        /\ pc = "DONE"
        /\ reply.kind = "returned"
        /\ messages # << >>
        /\ messages[Len(messages)] = Message("assistant", reply.text)

\* C4: when the model invocation raised, the returned text is a non-empty
\* apology that contains the error text, and the last entry of the memory log
\* is an assistant message with the returned text as content.
C4_InvocationFailureApology ==
    (pc = "DONE" /\ caught # None) =>
        /\ reply.kind = "returned"
        /\ reply.text # ""
        /\ reply.text = "I apologize, but I encountered an error: " \o caught.s
        /\ StrContains(reply.text, caught.s)
        /\ messages # << >>
        /\ messages[Len(messages)] = Message("assistant", reply.text)

\* the second invocation of a turn, after a round of tool calls, raised a
\* ClientError and the turn ended with the apology
C4_Witness ==
    /\ pc = "DONE"
    /\ caught # None
    /\ StrContains(caught.s, "ThrottlingException")
    /\ Len(inflight) > Len(context)
    /\ reply.kind = "returned"
    /\ messages[Len(messages)].role = "assistant"

\* C14: the tool catalogue goes with a model invocation if and only if the
\* router resolved the turn to the configured capable model, whatever pair of
\* model ids is configured; it never goes with the cheap model.
C14_ToolsIffCapableModel ==
    (pc = "INVOKE_MODEL") => (tools <=> model_id = claude_model_id)

\* C5: every process_message call terminates, whatever the model replies:
\* a turn under way comes to its end.
C5_EveryTurnTerminates == InTurn ~> TurnOver

-----------------------------------------------------------------------------
(* The ticket API: lambda/handler.py.  The tickets table is a function     *)
(* from TicketId to the item.  CreatedAt, UpdatedAt and the timestamps of  *)
(* notes and of the health check, readings of the clock, are left out.     *)

\* most notes on one ticket
MaxNotes == 2

\* a Python list as a value
List(xs) == [tag |-> "list", xs |-> xs]

\* json.dumps(body, cls=DecimalEncoder)
JsonDumps(body) == [tag |-> "json_text", v |-> body]

\* the headers of create_response
CORS_HEADERS ==
    ("Content-Type" :> "application/json")
    @@ ("Access-Control-Allow-Origin" :> "*")
    @@ ("Access-Control-Allow-Methods" :> "GET, POST, PUT, PATCH, DELETE, OPTIONS")
    @@ ("Access-Control-Allow-Headers" :> "Content-Type, Authorization, X-Api-Key")

create_response(status_code, body) ==
    [statusCode |-> status_code, headers |-> CORS_HEADERS, body |-> JsonDumps(body)]

\* the body of a request: the key is absent, or the text is a JSON object,
\* is no JSON, or is a JSON array
NoBody == [kind |-> "absent"]
BodyObject(d) == [kind |-> "object", v |-> d]
BodyNotJson == [kind |-> "not_json"]
BodyArray == [kind |-> "array"]

\* json.loads(event.get("body", "{}")): a dict, a list, or JSONDecodeError
json_loads(body) ==
    CASE body.kind = "absent" -> Returned([type |-> "dict", v |-> EmptyDict])
      [] body.kind = "object" -> Returned([type |-> "dict", v |-> body.v])
      [] body.kind = "array" -> Returned([type |-> "list", v |-> EmptyDict])
      [] OTHER -> Raised("JSONDecodeError")

\* what a handler leaves: the response or the exception, the table, and the
\* calls made on the table
Resp(resp, table, accesses) ==
    [raised |-> FALSE, value |-> resp, store |-> table, accesses |-> accesses]
Exc(exc, table, accesses) ==
    [raised |-> TRUE, value |-> exc, store |-> table, accesses |-> accesses]

\* what a call on the table can do besides its work: a botocore ClientError,
\* any other exception
StoreOutcomes == {"ok", "client_error", "exception"}

\* ', '.join(names)
JoinComma(names) ==
    IF Len(names) = 0 THEN ""
    ELSE IF Len(names) = 1 THEN names[1]
    ELSE names[1] \o ", " \o names[2]

\* required_fields that leaves the description out
required_fields_title_only == <<"title">>

\* handler.py:73
required_fields == <<"title", "description">>

\* handler.py:65-108; ticket_id is what generate_ticket_id gives
handler_create_ticket(event, table, ticket_id, outcome) ==
    LET parsed == json_loads(event.body)
    IN  IF parsed.raised
        THEN Resp(create_response(400, [error |-> "Invalid JSON in request body"]),
                  table, << >>)
        ELSE IF parsed.value.type # "dict"
        THEN Exc("AttributeError", table, << >>)
        ELSE
          LET body == parsed.value.v
              missing_fields ==
                  Keep(required_fields,
                       {f \in DOMAIN body \cup {"title", "description"} :
                           ~Truthy(DictGet(body, f, None))})
              full == [TicketId    |-> Str(ticket_id),
                       Title       |-> DictGet(body, "title", None),
                       Description |-> DictGet(body, "description", None),
                       Status      |-> DictGet(body, "status", Str("Open")),
                       Priority    |-> DictGet(body, "priority", Str("Medium")),
                       CustomerId  |-> DictGet(body, "customer_id", Str("default")),
                       AssignedTo  |-> DictGet(body, "assigned_to", None),
                       Category    |-> DictGet(body, "category", Str("General")),
                       Tags        |-> DictGet(body, "tags", List(<< >>)),
                       Notes       |-> List(<< >>)]
              ticket == [k \in {x \in DOMAIN full : full[x] # None} |-> full[k]]
          IN  IF missing_fields # << >>
              THEN Resp(create_response(400,
                            [error |-> "Missing required fields: "
                                       \o JoinComma(missing_fields)]),
                        table, << >>)
              ELSE IF outcome = "ok"
              THEN Resp(create_response(201, [message |-> "Ticket created successfully",
                                              ticket |-> ticket]),
                        DictSet(table, ticket_id, ticket), <<"put_item">>)
              ELSE IF outcome = "client_error"
              THEN Resp(create_response(500, [error |-> "Failed to create ticket"]),
                        table, <<"put_item">>)
              ELSE Exc("EndpointConnectionError", table, <<"put_item">>)

\* handler.py:111-129
handler_get_ticket(event, table, outcome) ==
    IF ~Truthy(event.ticketId)
    THEN Resp(create_response(400, [error |-> "Ticket ID is required"]), table, << >>)
    ELSE IF outcome = "client_error"
    THEN Resp(create_response(500, [error |-> "Failed to retrieve ticket"]),
              table, <<"get_item">>)
    ELSE IF outcome = "exception"
    THEN Exc("EndpointConnectionError", table, <<"get_item">>)
    ELSE IF event.ticketId.s \notin DOMAIN table
    THEN Resp(create_response(404, [error |-> "Ticket " \o event.ticketId.s \o " not found"]),
              table, <<"get_item">>)
    ELSE Resp(create_response(200, [ticket |-> table[event.ticketId.s]]),
              table, <<"get_item">>)

\* handler.py:146-154
allowed_fields ==
    <<"Title", "Description", "Status", "Priority", "AssignedTo", "Category", "Tags">>

\* field.lower() of every allowed field
FieldLower ==
    [f \in {allowed_fields[i] : i \in 1..Len(allowed_fields)} |-> StrLower(f)]

\* handler.py:163, body.get(field) or body.get(field.lower())
UpdateValue(body, field) ==
    IF Truthy(DictGet(body, field, None)) THEN DictGet(body, field, None)
    ELSE DictGet(body, FieldLower[field], None)

\* an update whose note takes the place of the notes of the item
UpdatedItem_replacing_notes(item, body) ==
    LET fields == {allowed_fields[i] : i \in 1..Len(allowed_fields)}
        set    == {f \in fields : UpdateValue(body, f) # None}
        note   == [text |-> DictGet(body, "note", None),
                   author |-> DictGet(body, "author", Str("System"))]
    IN  [k \in DOMAIN item \cup set \cup (IF "note" \in DOMAIN body THEN {"Notes"} ELSE {}) |->
            IF k \in set THEN UpdateValue(body, k)
            ELSE IF k = "Notes" /\ "note" \in DOMAIN body THEN List(<<note>>)
            ELSE item[k]]

\* the item update_item leaves: the fields set, and the note appended
UpdatedItem(item, body) ==
    LET fields == {allowed_fields[i] : i \in 1..Len(allowed_fields)}
        set    == {f \in fields : UpdateValue(body, f) # None}
        note   == [text |-> DictGet(body, "note", None),
                   author |-> DictGet(body, "author", Str("System"))]
    IN  [k \in DOMAIN item \cup set \cup (IF "note" \in DOMAIN body THEN {"Notes"} ELSE {}) |->
            IF k \in set THEN UpdateValue(body, k)
            ELSE IF k = "Notes" /\ "note" \in DOMAIN body
            THEN List(Append(IF "Notes" \in DOMAIN item THEN item.Notes.xs ELSE << >>, note))
            ELSE item[k]]

\* update_ticket without the ConditionExpression of handler.py:199
handler_update_ticket_upsert(event, table, outcome) ==
    IF ~Truthy(event.ticketId)
    THEN Resp(create_response(400, [error |-> "Ticket ID is required"]), table, << >>)
    ELSE LET id == event.ticketId.s
             body == json_loads(event.body).value.v
             item == IF id \in DOMAIN table THEN table[id] ELSE [TicketId |-> Str(id)]
         IN  Resp(create_response(200, [message |-> "Ticket updated successfully",
                                        ticket |-> UpdatedItem(item, body)]),
                  DictSet(table, id, UpdatedItem(item, body)), <<"update_item">>)

\* handler.py:132-205
handler_update_ticket(event, table, outcome) ==
    LET parsed == json_loads(event.body)
    IN  IF ~Truthy(event.ticketId)
        THEN Resp(create_response(400, [error |-> "Ticket ID is required"]), table, << >>)
        ELSE IF parsed.raised
        THEN Resp(create_response(400, [error |-> "Invalid JSON in request body"]),
                  table, << >>)
        ELSE IF parsed.value.type # "dict"
        THEN Exc("AttributeError", table, << >>)
        ELSE
          LET body == parsed.value.v
              id   == event.ticketId.s
              update_parts ==
                  {f \in {allowed_fields[i] : i \in 1..Len(allowed_fields)} :
                      UpdateValue(body, f) # None}
                  \cup (IF "note" \in DOMAIN body THEN {"Notes"} ELSE {})
          IN  IF update_parts = {}
              THEN Resp(create_response(400, [error |-> "No valid fields to update"]),
                        table, << >>)
              ELSE IF outcome = "client_error"
              THEN Resp(create_response(500, [error |-> "Failed to update ticket"]),
                        table, <<"update_item">>)
              ELSE IF outcome = "exception"
              THEN Exc("EndpointConnectionError", table, <<"update_item">>)
              ELSE IF id \notin DOMAIN table
              THEN Resp(create_response(404, [error |-> "Ticket " \o id \o " not found"]),
                        table, <<"update_item">>)
              ELSE Resp(create_response(200, [message |-> "Ticket updated successfully",
                                              ticket |-> UpdatedItem(table[id], body)]),
                        DictSet(table, id, UpdatedItem(table[id], body)),
                        <<"update_item">>)

\* handler.py:211-230
handler_delete_ticket(event, table, outcome) ==
    IF ~Truthy(event.ticketId)
    THEN Resp(create_response(400, [error |-> "Ticket ID is required"]), table, << >>)
    ELSE IF outcome = "client_error"
    THEN Resp(create_response(500, [error |-> "Failed to delete ticket"]),
              table, <<"delete_item">>)
    ELSE IF outcome = "exception"
    THEN Exc("EndpointConnectionError", table, <<"delete_item">>)
    ELSE IF event.ticketId.s \notin DOMAIN table
    THEN Resp(create_response(404, [error |-> "Ticket " \o event.ticketId.s \o " not found"]),
              table, <<"delete_item">>)
    ELSE Resp(create_response(200, [message |-> "Ticket " \o event.ticketId.s
                                                \o " deleted successfully"]),
              [k \in DOMAIN table \ {event.ticketId.s} |-> table[k]],
              <<"delete_item">>)

\* int(text) succeeds: the text is a run of digits
IsDigits(text) ==
    /\ Len(text) > 0
    /\ \A i \in 1..Len(text) : StrContains("0123456789", CharAt(text, i))

\* handler.py:233-282; the table holds fewer items than any limit given, so
\* the scan reads all of it
handler_list_tickets(event, table, outcome) ==
    LET query_params == event.query
        limit_text == DictGet(query_params, "limit", Str("50")).s
        status_filter == DictGet(query_params, "status", None)
        customer_filter == DictGet(query_params, "customer_id", None)
        items == {table[id] : id \in
                    {k \in DOMAIN table :
                        /\ Truthy(status_filter) => table[k].Status = status_filter
                        /\ Truthy(customer_filter) => table[k].CustomerId = customer_filter}}
    IN  IF ~IsDigits(limit_text)
        THEN Exc("ValueError", table, << >>)
        ELSE IF outcome = "client_error"
        THEN Resp(create_response(500, [error |-> "Failed to list tickets"]),
                  table, <<"scan">>)
        ELSE IF outcome = "exception"
        THEN Exc("EndpointConnectionError", table, <<"scan">>)
        ELSE Resp(create_response(200, [tickets |-> items, count |-> Cardinality(items)]),
                  table, <<"scan">>)

\* handler.py:285-294
health_check(event, table) ==
    Resp(create_response(200, [status |-> "healthy",
                               service |-> "msp-support-assistant-ticket-api"]),
         table, << >>)

\* str.startswith
StartsWith(s, prefix) ==
    Len(s) >= Len(prefix) /\ SubSeq(s, 1, Len(prefix)) = prefix

\* handler.py:297-319
lambda_handler(event, table, ticket_id, outcome) ==
    LET http_method == event.method
        path == event.rawPath
    IN  IF path = "/health" /\ http_method = "GET" THEN health_check(event, table)
        ELSE IF path = "/tickets" /\ http_method = "POST"
        THEN handler_create_ticket(event, table, ticket_id, outcome)
        ELSE IF path = "/tickets" /\ http_method = "GET"
        THEN handler_list_tickets(event, table, outcome)
        ELSE IF StartsWith(path, "/tickets/") /\ http_method = "GET"
        THEN handler_get_ticket(event, table, outcome)
        ELSE IF StartsWith(path, "/tickets/") /\ http_method \in {"PATCH", "PUT"}
        THEN handler_update_ticket(event, table, outcome)
        ELSE IF StartsWith(path, "/tickets/") /\ http_method = "DELETE"
        THEN handler_delete_ticket(event, table, outcome)
        ELSE Resp(create_response(404, [error |-> "Route not found: " \o http_method
                                                  \o " " \o path]),
                  table, << >>)

-----------------------------------------------------------------------------
(* The ticket API on its own: requests to lambda_handler.                  *)

\* the ids generate_ticket_id gives and requests name
TicketIds == {"TKT-1", "TKT-2"}

Event(method, rawPath, ticketId, body, query) ==
    [method |-> method, rawPath |-> rawPath, ticketId |-> ticketId, body |-> body,
     query |-> query]

\* the request that TicketTools.update_ticket(**args) sends, as the event the
\* API gateway makes of it
ToolUpdateEvent(args) ==
    LET request == update_ticket(args, [kind |-> "timeout"]).requests[1]
    IN  Event(request.method, request.path, args.ticket_id, BodyObject(request.data),
              EmptyDict)

CreateBodies ==
    { NoBody, BodyNotJson, BodyArray,
      BodyObject([title |-> Str("VPN down")]),
      BodyObject([description |-> Str("VPN drops every hour")]),
      BodyObject([title |-> Str(""), description |-> Str("VPN drops every hour")]),
      BodyObject([title |-> Str("VPN down"), description |-> Str("VPN drops every hour")]),
      BodyObject([title |-> Str("VPN down"), description |-> Str("VPN drops every hour"),
                  priority |-> Str("High"), category |-> Str("Network"),
                  assigned_to |-> Str("sam")]) }

UpdateBodies ==
    { NoBody, BodyNotJson, BodyArray,
      BodyObject([status |-> Str("Resolved")]),
      BodyObject([note |-> Str("called back")]),
      BodyObject([note |-> Str("fixed"), author |-> Str("kim")]),
      BodyObject([assigned_to |-> Str("kim")]) }

Events ==
    { Event("GET", "/health", None, NoBody, EmptyDict),
      Event("OPTIONS", "/tickets", None, NoBody, EmptyDict),
      Event("GET", "/other", None, NoBody, EmptyDict),
      Event("", "", None, NoBody, EmptyDict),
      Event("POST", "/tickets/TKT-1", Str("TKT-1"), NoBody, EmptyDict),
      Event("DELETE", "/tickets", None, NoBody, EmptyDict),
      Event("GET", "/tickets", None, NoBody, EmptyDict),
      Event("GET", "/tickets", None, NoBody, [limit |-> Str("5"), status |-> Str("Open")]),
      Event("GET", "/tickets", None, NoBody, [limit |-> Str("abc")]),
      Event("GET", "/tickets/", None, NoBody, EmptyDict) }
    \cup { Event("POST", "/tickets", None, b, EmptyDict) : b \in CreateBodies }
    \cup { Event("GET", "/tickets/" \o id, Str(id), NoBody, EmptyDict) : id \in TicketIds }
    \cup { Event("DELETE", "/tickets/" \o id, Str(id), NoBody, EmptyDict) : id \in TicketIds }
    \cup { Event("PATCH", "/tickets/TKT-1", Str("TKT-1"), b, EmptyDict) : b \in UpdateBodies }
    \cup { Event("PATCH", "/tickets/TKT-2", Str("TKT-2"), BodyObject([status |-> Str("Done")]),
                 EmptyDict) }
    \cup { Event("PUT", "/tickets/TKT-1", Str("TKT-1"), BodyObject([status |-> Str("Resolved")]),
                 EmptyDict) }
    \cup { ToolUpdateEvent([ticket_id |-> Str("TKT-1"), status |-> None, priority |-> None,
                            note |-> None, assigned_to |-> Str("kim")]) }

\* the request would add a note to a ticket that has MaxNotes notes
NotesFull(event) ==
    /\ event.method \in {"PATCH", "PUT"}
    /\ Truthy(event.ticketId)
    /\ event.ticketId.s \in DOMAIN store
    /\ event.body.kind = "object"
    /\ "note" \in DOMAIN event.body.v
    /\ Len(store[event.ticketId.s].Notes.xs) >= MaxNotes

\* what generate_ticket_id can give, for a request that reaches it: the id is
\* built from uuid4 and is taken to be the id of no stored ticket
GeneratedIds(event) ==
    IF event.method = "POST" /\ event.rawPath = "/tickets" /\ TicketIds \ DOMAIN store # {}
    THEN TicketIds \ DOMAIN store ELSE {"none"}

\* what the call on the table can do, for a request that makes one
StoreOutcomesOf(event, ticket_id) ==
    IF lambda_handler(event, store, ticket_id, "ok").accesses = << >>
    THEN {"ok"} ELSE StoreOutcomes

\* lambda_handler(event, context)
LambdaHandler(event) ==
    /\ ~NotesFull(event)
    /\ \E ticket_id \in GeneratedIds(event) :
        \E outcome \in StoreOutcomesOf(event, ticket_id) :
         LET r == lambda_handler(event, store, ticket_id, outcome)
         IN  /\ DOMAIN r.store \subseteq TicketIds
             /\ store' = r.store
             /\ hret' = [phase |-> "returned", op |-> "lambda_handler", event |-> event,
                         raised |-> r.raised, value |-> r.value,
                         accesses |-> r.accesses,
                         outcome |-> IF r.accesses = << >> THEN "none" ELSE outcome,
                         existed |-> (Truthy(event.ticketId)
                                      /\ event.ticketId.s \in DOMAIN store),
                         changed |-> (r.store # store)]
    /\ UNCHANGED <<memVars, routerVars, toolVars, agentVars, sessionVars, streamVars>>

InitLambda ==
    /\ MemInit(0)
    /\ RouterInit(CHOOSE ids \in ModelIdPairs : TRUE, FALSE)
    /\ ToolsInit
    /\ AgentInit
    /\ LambdaInit
    /\ SessionInit

NextLambda == \E event \in Events : LambdaHandler(event)

SpecLambda == InitLambda /\ [][NextLambda]_vars

-----------------------------------------------------------------------------
(* Properties of the ticket API *)

HandlerReturned == hret.phase = "returned"

\* the request at hand went to the create handler
IsCreate == hret.event.method = "POST" /\ hret.event.rawPath = "/tickets"

\* the request at hand went to the get, update or delete handler with an id
IsById ==
    /\ StartsWith(hret.event.rawPath, "/tickets/")
    /\ hret.event.method \in {"GET", "PATCH", "PUT", "DELETE"}
    /\ Truthy(hret.event.ticketId)

\* the required fields that the body of the request at hand leaves out or
\* leaves empty, in order
MissingOf(body) ==
    Keep(<<"title", "description">>,
         {f \in {"title", "description"} : ~Truthy(DictGet(body, f, None))})

IsNotFound ==
    /\ ~hret.raised
    /\ hret.value.statusCode = 404
    /\ StrContains(hret.value.body.v.error, "not found")

\* the update at hand has a body that is a JSON object with an update field
HasUpdateField ==
    /\ hret.event.body.kind = "object"
    /\ \/ "note" \in DOMAIN hret.event.body.v
       \/ \E i \in 1..Len(allowed_fields) :
             UpdateValue(hret.event.body.v, allowed_fields[i]) # None

NoRoute ==
    LET m == hret.event.method
        p == hret.event.rawPath
    IN  ~ \/ p = "/health" /\ m = "GET"
          \/ p = "/tickets" /\ m \in {"POST", "GET"}
          \/ StartsWith(p, "/tickets/") /\ m \in {"GET", "PATCH", "PUT", "DELETE"}

\* C20: for every request event lambda_handler returns a response, never an
\* exception, with a status code, a JSON body and the CORS headers; a method
\* and path that match none of the six routes get 404 without a store call.
C20_AlwaysAResponse ==
    HandlerReturned =>
        /\ ~hret.raised
        /\ hret.value.statusCode \in {200, 201, 400, 404, 500}
        /\ hret.value.headers = CORS_HEADERS
        /\ hret.value.body.tag = "json_text"
        /\ NoRoute => (hret.value.statusCode = 404 /\ hret.accesses = << >>)

-----------------------------------------------------------------------------
(* More properties of process_message *)

\* the router was called in the turn under way or just ended
Routed ==
    /\ pc \in {"INVOKE_MODEL", "TOOL_LOOP", "MEMORY_WRITE_ASSISTANT", "RAISED"}
    /\ rcall.phase = "returned"
    /\ rcall.op = "get_model"

\* C21: when the router is about to be called the user message is the last
\* entry of the memory log, and the context_length the router is given is the
\* number of messages in the log after that append: it counts the new user
\* message and is at most the capacity.
C21_ContextLengthAfterAppend ==
    /\ pc = "ROUTE" =>
          /\ messages # << >>
          /\ messages[Len(messages)] = Message("user", user_message)
    /\ Routed =>
          /\ rcall.query = user_message
          /\ rcall.context_length = Len(messages)
          /\ rcall.context_length >= 1
          /\ rcall.context_length <= max_messages

\* C22: one process_message call appends to the memory log one user message
\* followed by one assistant message and nothing else, however many rounds
\* of tool calls it has and whether it succeeds or fails: while the turn is
\* under way the log got the user message only, and once it is over the log
\* got the user message and the assistant message.
C22_OneUserOneAssistantPerTurn ==
    /\ InTurn =>
          /\ Len(appended) = 2 * turns - 1
          /\ appended[Len(appended)] = Message("user", user_message)
    /\ TurnOver =>
          /\ Len(appended) = 2 * turns
          /\ appended[Len(appended) - 1] = Message("user", user_message)
          /\ appended[Len(appended)].role = "assistant"

\* the ids of the tool_use blocks among the first n blocks, in order
ToolUseIds(content, n) ==
    LET calls == SelectSeq(SubSeq(content, 1, n), LAMBDA b : b.type = "tool_use")
    IN  [i \in 1..Len(calls) |-> calls[i].id]

\* the call ids a list of tool_result blocks is tagged with, in order
ResultIds(results) == [i \in 1..Len(results) |-> results[i].tool_use_id]

\* C23: in a round of tool calls the calls are executed one at a time in the
\* order of the model reply: after each block the results list holds one
\* result per call passed so far, in order, each tagged with the id of its
\* call, the last one being the result of the execution just made; the model
\* is invoked again with the results of all the calls of the reply.
C23_ToolCallsInOrder ==
    /\ (pc = "TOOL_LOOP" /\ "content" \in DOMAIN response) =>
          LET content == response.content
              done    == Min(block - 1, Len(content))
          IN  /\ ResultIds(tool_results) = ToolUseIds(content, done)
              /\ (done >= 1 /\ content[done].type = "tool_use") =>
                    /\ tcall.phase = "returned"
                    /\ tcall.tool_name = content[done].name
                    /\ tcall.tool_input = content[done].input
                    /\ tool_results[Len(tool_results)] =
                          ToolResultBlock(content[done].id, tcall.result)
    /\ (pc = "INVOKE_MODEL" /\ Len(inflight) > Len(context)) =>
          LET n == Len(inflight)
          IN  /\ inflight[n - 1].role = "assistant"
              /\ inflight[n].role = "user"
              /\ ResultIds(inflight[n].content)
                    = ToolUseIds(inflight[n - 1].content, Len(inflight[n - 1].content))

\* the model is about to be invoked again with the two results of a reply
\* that asked for two tools
C23_Witness ==
    /\ pc = "INVOKE_MODEL"
    /\ Len(inflight) > Len(context)
    /\ ResultIds(inflight[Len(inflight)].content) = <<"tu_1", "tu_2">>

\* the list starts with a user message and no two neighbours have one role
Alternates(msgs) ==
    /\ msgs # << >>
    /\ msgs[1].role = "user"
    /\ \A i \in 1..(Len(msgs) - 1) : msgs[i].role # msgs[i + 1].role

\* C29: the message list of every model invocation starts with a user
\* message and alternates user and assistant, whatever the number of earlier
\* turns and the capacity of the memory.
C29_InFlightAlternates ==
    pc = "INVOKE_MODEL" => Alternates(inflight)

-----------------------------------------------------------------------------
(* MSPSupportAgent.process_message_stream, the generator run by a consumer *)
(* that takes every chunk:                                                  *)
(*   ProcessMessageStream  the first next(): the user message goes to       *)
(*                         memory, the request is built       (377-397)     *)
(*   StreamOpen            invoke_model_with_response_stream  (400-403)     *)
(*   StreamEvent           one event of the body, or its end  (405-414)     *)
(* and the handler of agent.py:416-420.                                     *)

\* most text deltas of one stream
MaxChunks == 2

\* what invoke_model_with_response_stream can do: a stream, a ClientError,
\* any other exception
StreamOpenOutcomes ==
    { [kind |-> "stream"],
      [kind |-> "client_error",
       msg |-> "An error occurred (ThrottlingException) when calling the InvokeModelWithResponseStream operation: Too many requests"],
      [kind |-> "exception", msg |-> "Could not connect to the endpoint URL"] }

\* what the body gives next: a text delta, a delta that is no text, an event
\* of another type, bytes that are no JSON, an error of the event stream,
\* or its end
StreamEvents ==
    { [kind |-> "chunk",
       chunk |-> [type |-> "content_block_delta",
                  delta |-> [type |-> "text_delta", text |-> "Hel"]]],
      [kind |-> "chunk",
       chunk |-> [type |-> "content_block_delta",
                  delta |-> [type |-> "text_delta", text |-> "lo"]]],
      [kind |-> "chunk",
       chunk |-> [type |-> "content_block_delta",
                  delta |-> [type |-> "input_json_delta"]]],
      [kind |-> "chunk", chunk |-> [type |-> "message_stop"]],
      [kind |-> "not_json", msg |-> "Expecting value: line 1 column 1 (char 0)"],
      [kind |-> "stream_error", msg |-> "An error occurred (modelStreamErrorException)"],
      [kind |-> "end"] }

\* a handler that writes nothing and yields nothing
stream_except_silent(e) == [assistant |-> << >>, yielded |-> << >>]

\* agent.py:416-420: what the handler writes to memory and what it yields
stream_except(e) == [assistant |-> <<"Error: " \o e>>, yielded |-> <<"Error: " \o e>>]

\* agent.py:407-412: the text an event yields, if any
DeltaText(chunk) ==
    IF /\ DictGet(chunk, "type", "") = "content_block_delta"
       /\ DictGet(DictGet(chunk, "delta", EmptyDict), "type", "") = "text_delta"
    THEN <<DictGet(chunk.delta, "text", "")>>
    ELSE << >>

\* the generator is started: agent.py:377-397
ProcessMessageStream(msg) ==
    /\ pc \in {"idle", "DONE"}
    /\ turns < MaxTurns
    /\ messages' = add_message(messages, max_messages, "user", msg)
    /\ appended' = Append(appended, Message("user", msg))
    /\ context' = get_conversation_context(messages')
    /\ user_message' = msg
    /\ model_id' = claude_model_id
    /\ inflight' = FormatMessages(context')
    /\ chunks' = << >>
    /\ full_response' = ""
    /\ caught' = None
    /\ reply' = NoReply
    /\ pc' = "STREAM_OPEN"
    /\ turns' = turns + 1
    /\ UNCHANGED <<pm_force_model, tools, response, block, tool_results>>
    /\ UNCHANGED <<max_messages, session_metadata, mret>>
    /\ UNCHANGED <<routerVars, toolVars, lambdaVars, sessionVars>>

\* agent.py:416-420: the handler of the exception e
StreamHandle(e) ==
    LET h == stream_except(e)
    IN  /\ caught' = Str(e)
        /\ messages' = IF h.assistant = << >> THEN messages
                       ELSE add_message(messages, max_messages, "assistant", h.assistant[1])
        /\ appended' = appended \o [i \in 1..Len(h.assistant) |->
                                       Message("assistant", h.assistant[i])]
        /\ chunks' = chunks \o h.yielded
        /\ reply' = [kind |-> "exhausted"]
        /\ pc' = "DONE"

\* agent.py:400-403
StreamOpen ==
    /\ pc = "STREAM_OPEN"
    /\ \E o \in StreamOpenOutcomes :
         IF o.kind = "stream"
         THEN /\ pc' = "STREAMING"
              /\ UNCHANGED <<messages, appended, chunks, caught, reply>>
         ELSE StreamHandle(o.msg)
    /\ UNCHANGED <<user_message, pm_force_model, context, model_id, tools, inflight,
                   response, block, tool_results, turns, full_response>>
    /\ UNCHANGED <<max_messages, session_metadata, mret>>
    /\ UNCHANGED <<routerVars, toolVars, lambdaVars, sessionVars>>

\* agent.py:405-414: the next event of the body, or the end of the body
StreamEvent ==
    /\ pc = "STREAMING"
    /\ \E ev \in StreamEvents :
         IF ev.kind = "chunk"
         THEN /\ Len(chunks) + Len(DeltaText(ev.chunk)) <= MaxChunks
              /\ chunks' = chunks \o DeltaText(ev.chunk)
              /\ full_response' = IF DeltaText(ev.chunk) = << >> THEN full_response
                                  ELSE full_response \o DeltaText(ev.chunk)[1]
              /\ UNCHANGED <<messages, appended, caught, reply, pc>>
         ELSE IF ev.kind = "end"
         THEN /\ messages' = add_message(messages, max_messages, "assistant", full_response)
              /\ appended' = Append(appended, Message("assistant", full_response))
              /\ reply' = [kind |-> "exhausted"]
              /\ pc' = "DONE"
              /\ UNCHANGED <<chunks, caught, full_response>>
         ELSE /\ StreamHandle(ev.msg)
              /\ UNCHANGED full_response
    /\ UNCHANGED <<user_message, pm_force_model, context, model_id, tools, inflight,
                   response, block, tool_results, turns>>
    /\ UNCHANGED <<max_messages, session_metadata, mret>>
    /\ UNCHANGED <<routerVars, toolVars, lambdaVars, sessionVars>>

InitStream ==
    /\ \E cap \in AgentCapacities : MemInit(cap)
    /\ RouterInit(CHOOSE ids \in ModelIdPairs : TRUE, FALSE)
    /\ ToolsInit
    /\ AgentInit
    /\ LambdaInit
    /\ SessionInit

NextStream ==
    \/ \E msg \in UserMessages : ProcessMessageStream(msg)
    \/ StreamOpen
    \/ StreamEvent

SpecStream == InitStream /\ [][NextStream]_vars

-----------------------------------------------------------------------------
(* Properties of process_message_stream *)

\* the chunks, joined
RECURSIVE Concat(_)
Concat(texts) == IF texts = << >> THEN "" ELSE texts[1] \o Concat(Tail(texts))

\* C24: a streaming turn never raises to its consumer.  A turn that met an
\* error, before or after text was yielded, yielded the text chunks and then
\* one error chunk, the last; and every turn that is over wrote one assistant
\* message to memory, after its user message.
C24_StreamNeverRaises ==
    /\ (pc \in {"STREAM_OPEN", "STREAMING"}) =>
          /\ Len(appended) = 2 * turns - 1
          /\ Concat(chunks) = full_response
    /\ (pc = "DONE") =>
          /\ reply.kind = "exhausted"
          /\ Len(appended) = 2 * turns
          /\ appended[Len(appended) - 1] = Message("user", user_message)
          /\ appended[Len(appended)].role = "assistant"
          /\ caught = None =>
                /\ Concat(chunks) = full_response
                /\ appended[Len(appended)].content = full_response
          /\ caught # None =>
                /\ chunks # << >>
                /\ chunks[Len(chunks)] = "Error: " \o caught.s
                /\ Concat(SubSeq(chunks, 1, Len(chunks) - 1)) = full_response
                /\ appended[Len(appended)].content = "Error: " \o caught.s

\* the stream broke after text was yielded, in the second turn
C24_Witness ==
    /\ pc = "DONE"
    /\ turns = 2
    /\ caught # None
    /\ Len(chunks) >= 2
    /\ full_response # ""

-----------------------------------------------------------------------------
(* Sessions: MSPSupportAgent.start_session and end_session, between the    *)
(* turns of process_message.  The session summary goes to the long-term    *)
(* store, which is no part of this model, and a failure to generate it is  *)
(* caught (agent.py:148-150), so end_session is modelled by what it does   *)
(* to the log and to the session ids.                                       *)

SessionIds == {"session-123", "session-456"}
UserIds == {None, Str("u-1")}

\* MemoryManager.set_session: the metadata map it leaves
set_session(metadata, sid) == DictSet(metadata, "session_id", sid)

\* start_session(session_id, user_id): agent.py:79-91
StartSession(sid, user_id) ==
    /\ pc \in {"idle", "DONE", "RAISED"}
    /\ session_id' = Str(sid)
    /\ memory_session_id' = Str(sid)
    /\ session_metadata' =
          IF Truthy(user_id)
          THEN DictSet(set_session(session_metadata, sid), "user_id", user_id.s)
          ELSE set_session(session_metadata, sid)
    /\ session_mark' = Len(appended)
    /\ reply' = NoReply
    /\ UNCHANGED <<max_messages, messages, appended, mret>>
    /\ UNCHANGED <<pc, user_message, pm_force_model, context, model_id, tools, inflight,
                   response, block, tool_results, caught, turns>>
    /\ UNCHANGED <<routerVars, toolVars, lambdaVars, streamVars>>

\* end_session(): agent.py:93-113 and MemoryManager.clear_session
EndSession ==
    /\ pc \in {"idle", "DONE", "RAISED"}
    /\ messages' = clear(messages, session_metadata).messages
    /\ session_metadata' = clear(messages, session_metadata).session_metadata
    /\ memory_session_id' = None
    /\ session_id' = None
    /\ reply' = [kind |-> "session_ended"]
    /\ UNCHANGED <<max_messages, appended, mret, session_mark>>
    /\ UNCHANGED <<pc, user_message, pm_force_model, context, model_id, tools, inflight,
                   response, block, tool_results, caught, turns>>
    /\ UNCHANGED <<routerVars, toolVars, lambdaVars, streamVars>>

\* short_term_memory_size of the sessions
SessionCapacity == 4

InitSession ==
    /\ MemInit(SessionCapacity)
    /\ RouterInit(CHOOSE ids \in ModelIdPairs : TRUE, FALSE)
    /\ ToolsInit
    /\ AgentInit
    /\ LambdaInit
    /\ SessionInit

NextSession ==
    \/ \E sid \in SessionIds, user_id \in UserIds : StartSession(sid, user_id)
    \/ EndSession
    \/ \E msg \in UserMessages : ProcessMessage(msg, None)
    \/ Route
    \/ InvokeModel
    \/ ToolStep
    \/ WriteAssistant

SpecSession == InitSession /\ [][NextSession]_vars

-----------------------------------------------------------------------------
(* Properties of the sessions *)

\* C27: the context of a model invocation holds only messages added since
\* the most recent start_session, and after end_session the log is empty and
\* there is no session id.
C27_LogOwnedByOneSession ==
    /\ (pc = "INVOKE_MODEL") =>
          /\ Len(context) <= Len(appended) - session_mark
          /\ context = Pairs(Tail_k(appended, Len(context)))
    /\ (reply = [kind |-> "session_ended"]) =>
          /\ messages = << >>
          /\ session_id = None
          /\ memory_session_id = None


\* the notes of a stored ticket
NotesOf(table, id) == table[id].Notes.xs

\* C25: the notes of a stored ticket only grow: whatever the request, a
\* ticket that is in the store before and after it has its previous notes as
\* a prefix of its notes, with at most one note more.
C25_NotesOnlyGrow ==
    [][\A id \in DOMAIN store \cap DOMAIN store' :
          /\ Len(NotesOf(store', id)) \in {Len(NotesOf(store, id)),
                                           Len(NotesOf(store, id)) + 1}
          /\ SubSeq(NotesOf(store', id), 1, Len(NotesOf(store, id))) = NotesOf(store, id)
      ]_vars

\* a ticket got a note and then an update of its status, next to another
\* ticket
C25_Witness ==
    /\ DOMAIN store = TicketIds
    /\ Len(NotesOf(store, "TKT-1")) >= 1
    /\ store["TKT-1"].Status = Str("Resolved")
    /\ HandlerReturned
    /\ hret.event.method = "PUT"
    /\ hret.value.statusCode = 200

\* C26: every ticket in the store has a status, a priority and a category of
\* the enumerations of the data model.
C26_EnumsAlwaysValid ==
    \A id \in DOMAIN store :
        /\ store[id].Status \in {Str("Open"), Str("In Progress"), Str("Resolved"),
                                  Str("Closed")}
        /\ store[id].Priority \in {Str("Low"), Str("Medium"), Str("High"), Str("Critical")}
        /\ store[id].Category \in {Str("Network"), Str("Hardware"), Str("Software"),
                                    Str("Security"), Str("General")}

\* C30: the request that the update_ticket tool sends for a call with only
\* assigned_to set, handled for a ticket that exists while the store works,
\* is accepted and overwrites AssignedTo with that value.
C30_ToolAssignIsApplied ==
    (/\ HandlerReturned
     /\ hret.event = ToolUpdateEvent([ticket_id |-> Str("TKT-1"), status |-> None,
                                      priority |-> None, note |-> None,
                                      assigned_to |-> Str("kim")])
     /\ hret.existed
     /\ hret.outcome \in {"ok", "none"}) =>
        /\ ~hret.raised
        /\ hret.value.statusCode = 200
        /\ "TKT-1" \in DOMAIN store
        /\ "AssignedTo" \in DOMAIN store["TKT-1"]
        /\ store["TKT-1"].AssignedTo = Str("kim")

-----------------------------------------------------------------------------
(* The tool-style entry point: lambda/agentcore_handler.py, on the same    *)
(* tickets table.  An event is a map from keys to values; the value of     *)
(* "parameters" and of "input" is a map, Dict(d).  The clock, and with it  *)
(* the tickets of the last 24 hours in the summary, is left out.  The last *)
(* line, json.loads(json.dumps(result)), leaves a result of strings,       *)
(* numbers, lists and maps as it is.                                        *)

Dict(d) == [tag |-> "dict", d |-> d]

\* agentcore_handler.py:58-106
agentcore_list_tickets(params, table, outcome) ==
    LET limit == DictGet(params, "limit", IntVal(50))
        status_filter == DictGet(params, "status", None)
        customer_filter == DictGet(params, "customer_id", None)
        items == {table[id] : id \in
                    {k \in DOMAIN table :
                        /\ Truthy(status_filter) => table[k].Status = status_filter
                        /\ Truthy(customer_filter) => table[k].CustomerId = customer_filter}}
    IN  IF limit.tag = "str" /\ ~IsDigits(limit.s)
        THEN Exc("ValueError", table, << >>)
        ELSE IF outcome = "client_error"
        THEN Resp([success |-> FALSE, error |-> "An error occurred (ThrottlingException)"],
                  table, <<"scan">>)
        ELSE IF outcome = "exception"
        THEN Exc("EndpointConnectionError", table, <<"scan">>)
        ELSE Resp([success |-> TRUE, tickets |-> items, count |-> Cardinality(items)],
                  table, <<"scan">>)

\* agentcore_handler.py:109-165
agentcore_create_ticket(params, table, ticket_id, outcome) ==
    LET title == DictGet(params, "title", None)
        description == DictGet(params, "description", None)
        full == [TicketId    |-> Str(ticket_id),
                 Title       |-> title,
                 Description |-> description,
                 Status      |-> DictGet(params, "status", Str("Open")),
                 Priority    |-> DictGet(params, "priority", Str("Medium")),
                 CustomerId  |-> DictGet(params, "customer_id", Str("default")),
                 AssignedTo  |-> DictGet(params, "assigned_to", None),
                 Category    |-> DictGet(params, "category", Str("General")),
                 Tags        |-> DictGet(params, "tags", List(<< >>)),
                 Notes       |-> List(<< >>)]
        ticket == [k \in {x \in DOMAIN full : full[x] # None} |-> full[k]]
    IN  IF ~Truthy(title) \/ ~Truthy(description)
        THEN Resp([success |-> FALSE,
                   error |-> "Missing required fields: title and description are required"],
                  table, << >>)
        ELSE IF outcome = "ok"
        THEN Resp([success |-> TRUE, message |-> "Ticket created successfully",
                   ticket |-> ticket],
                  DictSet(table, ticket_id, ticket), <<"put_item">>)
        ELSE IF outcome = "client_error"
        THEN Resp([success |-> FALSE, error |-> "An error occurred (ThrottlingException)"],
                  table, <<"put_item">>)
        ELSE Exc("EndpointConnectionError", table, <<"put_item">>)

\* params.get("ticket_id") or params.get("id")
ParamTicketId(params) ==
    IF Truthy(DictGet(params, "ticket_id", None)) THEN params.ticket_id
    ELSE DictGet(params, "id", None)

\* agentcore_handler.py:168-195
agentcore_get_ticket(params, table, outcome) ==
    LET ticket_id == ParamTicketId(params)
    IN  IF ~Truthy(ticket_id)
        THEN Resp([success |-> FALSE, error |-> "ticket_id is required"], table, << >>)
        ELSE IF outcome = "client_error"
        THEN Resp([success |-> FALSE, error |-> "An error occurred (ThrottlingException)"],
                  table, <<"get_item">>)
        ELSE IF outcome = "exception"
        THEN Exc("EndpointConnectionError", table, <<"get_item">>)
        ELSE IF ticket_id.s \notin DOMAIN table
        THEN Resp([success |-> FALSE, error |-> "Ticket " \o ticket_id.s \o " not found"],
                  table, <<"get_item">>)
        ELSE Resp([success |-> TRUE, ticket |-> table[ticket_id.s]], table, <<"get_item">>)

\* agentcore_handler.py:198-274; the author of a note defaults to "Agent"
agentcore_update_ticket(params, table, outcome) ==
    LET ticket_id == ParamTicketId(params)
        update_parts ==
            {f \in {allowed_fields[i] : i \in 1..Len(allowed_fields)} :
                UpdateValue(params, f) # None}
            \cup (IF "note" \in DOMAIN params THEN {"Notes"} ELSE {})
        body == IF "author" \in DOMAIN params THEN params
                ELSE DictSet(params, "author", Str("Agent"))
    IN  IF ~Truthy(ticket_id)
        THEN Resp([success |-> FALSE, error |-> "ticket_id is required"], table, << >>)
        ELSE IF update_parts = {}
        THEN Resp([success |-> FALSE, error |-> "No valid fields to update"], table, << >>)
        ELSE IF outcome = "client_error"
        THEN Resp([success |-> FALSE, error |-> "An error occurred (ThrottlingException)"],
                  table, <<"update_item">>)
        ELSE IF outcome = "exception"
        THEN Exc("EndpointConnectionError", table, <<"update_item">>)
        ELSE IF ticket_id.s \notin DOMAIN table
        THEN Resp([success |-> FALSE, error |-> "Ticket " \o ticket_id.s \o " not found"],
                  table, <<"update_item">>)
        ELSE Resp([success |-> TRUE, message |-> "Ticket updated successfully",
                   ticket |-> UpdatedItem(table[ticket_id.s], body)],
                  DictSet(table, ticket_id.s, UpdatedItem(table[ticket_id.s], body)),
                  <<"update_item">>)

\* the number of tickets for each value of a field
CountBy(table, field) ==
    [v \in {table[id][field] : id \in DOMAIN table} |->
        Cardinality({id \in DOMAIN table : table[id][field] = v})]

\* agentcore_handler.py:277-349
agentcore_get_ticket_summary(params, table, outcome) ==
    IF outcome = "client_error"
    THEN Resp([success |-> FALSE, error |-> "An error occurred (ThrottlingException)"],
              table, <<"scan">>)
    ELSE IF outcome = "exception"
    THEN Exc("EndpointConnectionError", table, <<"scan">>)
    ELSE Resp([success |-> TRUE,
               summary |-> [total_tickets |-> Cardinality(DOMAIN table),
                            by_status |-> CountBy(table, "Status"),
                            by_priority |-> CountBy(table, "Priority"),
                            by_category |-> CountBy(table, "Category")]],
              table, <<"scan">>)

\* agentcore_handler.py:353-359, the names
TOOLS ==
    {"list_tickets", "create_ticket", "get_ticket", "update_ticket", "get_ticket_summary"}

\* agentcore_handler.py:387, event.get("tool_name") or event.get("name") or
\* event.get("action")
NamedTool(event) ==
    IF Truthy(DictGet(event, "tool_name", None)) THEN event.tool_name
    ELSE IF Truthy(DictGet(event, "name", None)) THEN event.name
    ELSE DictGet(event, "action", None)

\* agentcore_handler.py:398-408
InferredTool(event) ==
    IF "ticket_id" \in DOMAIN event \/ "id" \in DOMAIN event
    THEN IF \E k \in {"status", "priority", "note", "assigned_to"} : k \in DOMAIN event
         THEN "update_ticket" ELSE "get_ticket"
    ELSE IF "title" \in DOMAIN event /\ "description" \in DOMAIN event
    THEN "create_ticket"
    ELSE IF DictGet(event, "action", None) = Str("summary")
            \/ Truthy(DictGet(event, "summary", None))
    THEN "get_ticket_summary"
    ELSE "list_tickets"

\* agentcore_handler.py:362-422: what the tool leaves, and the tool called
agentcore_lambda_handler(event, table, ticket_id, outcome) ==
    LET tool_name == IF Truthy(NamedTool(event)) THEN NamedTool(event).s
                     ELSE InferredTool(event)
        params == IF Truthy(NamedTool(event))
                  THEN DictGet(event, "parameters", DictGet(event, "input", Dict(EmptyDict))).d
                  ELSE event
    IN  CASE tool_name = "list_tickets" ->
               [tool |-> tool_name] @@ agentcore_list_tickets(params, table, outcome)
          [] tool_name = "create_ticket" ->
               [tool |-> tool_name] @@ agentcore_create_ticket(params, table, ticket_id, outcome)
          [] tool_name = "get_ticket" ->
               [tool |-> tool_name] @@ agentcore_get_ticket(params, table, outcome)
          [] tool_name = "update_ticket" ->
               [tool |-> tool_name] @@ agentcore_update_ticket(params, table, outcome)
          [] tool_name = "get_ticket_summary" ->
               [tool |-> tool_name] @@ agentcore_get_ticket_summary(params, table, outcome)
          [] OTHER ->
               [tool |-> "none"]
               @@ Resp([success |-> FALSE, error |-> "Unknown tool: " \o tool_name],
                       table, << >>)

\* the events of the gateway: the parameters themselves, or a tool name with
\* its parameters
AgentcoreEvents ==
    { EmptyDict,
      [status |-> Str("Open")],
      [limit |-> IntVal(10), customer_id |-> Str("default")],
      [limit |-> Str("abc")],
      [ticket_id |-> Str("TKT-1")],
      [id |-> Str("TKT-2")],
      [ticket_id |-> Str("TKT-1"), status |-> Str("Resolved")],
      [id |-> Str("TKT-1"), note |-> Str("called back")],
      [ticket_id |-> Str("TKT-1"), assigned_to |-> Str("kim")],
      [ticket_id |-> Str("TKT-2"), priority |-> Str("High")],
      [ticket_id |-> Str("TKT-1"), title |-> Str("VPN down"),
       description |-> Str("VPN drops every hour")],
      [title |-> Str("VPN down"), description |-> Str("VPN drops every hour")],
      [title |-> Str("VPN down"), description |-> Str("VPN drops every hour"),
       priority |-> Str("High")],
      [title |-> Str("VPN down")],
      [action |-> Str("summary")],
      [summary |-> Str("yes")],
      [tool_name |-> Str("create_ticket"),
       parameters |-> Dict([title |-> Str("Printer jam"), description |-> Str("Tray 2")])],
      [name |-> Str("get_ticket"), input |-> Dict([ticket_id |-> Str("TKT-1")])],
      [tool_name |-> Str("get_ticket_summary")],
      [tool_name |-> Str("delete_ticket"), parameters |-> Dict([ticket_id |-> Str("TKT-1")])],
      [action |-> Str("list_tickets")] }

\* lambda_handler(event, context) of agentcore_handler.py
AgentcoreHandler(event) ==
    /\ \E ticket_id \in (IF TicketIds \ DOMAIN store # {} THEN TicketIds \ DOMAIN store
                         ELSE {"none"}),
          outcome \in StoreOutcomes :
         LET r == agentcore_lambda_handler(event, store, ticket_id, outcome)
         IN  /\ DOMAIN r.store \subseteq TicketIds
             /\ \A id \in DOMAIN r.store : Len(r.store[id].Notes.xs) <= MaxNotes
             /\ store' = r.store
             /\ hret' = [phase |-> "returned", op |-> "agentcore_handler", event |-> event,
                         tool |-> r.tool, raised |-> r.raised, value |-> r.value,
                         accesses |-> r.accesses]
    /\ UNCHANGED <<memVars, routerVars, toolVars, agentVars, sessionVars, streamVars>>

NextAgentcore == \E event \in AgentcoreEvents : AgentcoreHandler(event)

SpecAgentcore == InitLambda /\ [][NextAgentcore]_vars

-----------------------------------------------------------------------------
(* Properties of the tool-style entry point *)

\* the request at hand carries no tool name: no tool_name and no name, and
\* no action but "summary"
NoToolName ==
    /\ hret.phase = "returned"
    /\ hret.op = "agentcore_handler"
    /\ "tool_name" \notin DOMAIN hret.event
    /\ "name" \notin DOMAIN hret.event
    /\ DictGet(hret.event, "action", Str("summary")) = Str("summary")

\* C28: an event with no tool name is dispatched by the keys it has: an id
\* with an update key to update_ticket, an id alone to get_ticket, title and
\* description to create_ticket, action "summary" or a truthy summary to
\* get_ticket_summary, anything else to list_tickets; so every such event
\* reaches one of the five registered tools.
C28_InferredDispatch ==
    NoToolName =>
        /\ hret.tool \in TOOLS
        /\ hret.tool =
             (IF "ticket_id" \in DOMAIN hret.event \/ "id" \in DOMAIN hret.event
              THEN IF DOMAIN hret.event \cap {"status", "priority", "note", "assigned_to"} # {}
                   THEN "update_ticket" ELSE "get_ticket"
              ELSE IF {"title", "description"} \subseteq DOMAIN hret.event
              THEN "create_ticket"
              ELSE IF DictGet(hret.event, "action", None) = Str("summary")
                      \/ Truthy(DictGet(hret.event, "summary", None))
              THEN "get_ticket_summary"
              ELSE "list_tickets")

=============================================================================
